---- MODULE Spec2Model ----
(***************************************************************************)
(* Model of the workspace plugin (src/src/plugin/workspace-plugin.ts): the *)
(* plan markdown extractor and validator, the plan store scoped by root    *)
(* session, the tool hooks and the compaction hook, and the in-flight      *)
(* coder-call tracking map with its periodic sweep.                        *)
(*                                                                         *)
(* Plan texts are TLA+ strings, read character by character (Len, SubSeq), *)
(* and the regular expressions of the source are interpreted by a small    *)
(* backtracking matcher, so that extraction is computed as the code        *)
(* computes it.  A TLA+ string cannot hold U+0060 (the backtick): the      *)
(* apostrophe stands for it (BQ), and no text of the model uses an         *)
(* apostrophe for anything else.  The emoji that open some messages of the *)
(* source are left out of the message strings for the same reason.         *)
(***************************************************************************)
EXTENDS Integers, Sequences, FiniteSets, TLC

VARIABLES
    parentID,          \* host session store: session id -> parent id or NoParent
    dirs,              \* root ids whose <baseDir>/<rootID> directory exists
    files,             \* root id -> <<>> (no plan.md) or <<text>>
    call,              \* the tool call (or hook run) in hand: what was asked, what came back
    lastSaved,         \* history: root id -> <<>> or <<its last successful plan_save>>
    activeCoderCalls,  \* callID -> <<>> (not tracked) or <<startTime>>
    running,           \* history: the task calls the host has started and not yet completed
    now,               \* Date.now(), in milliseconds
    nextSweep,         \* when the cleanupInterval timer fires next
    input,             \* the plan text the tools are given (specification of the parser)
    project            \* the project's files, its repository, and the getProjectId calls made

vars == <<parentID, dirs, files, call, lastSaved, activeCoderCalls, running, now, nextSweep,
          input, project>>

-----------------------------------------------------------------------------
(* Characters and strings *)

Min(S) == CHOOSE m \in S : \A n \in S : m <= n
Max(S) == CHOOSE m \in S : \A n \in S : m >= n

Digit == {"0", "1", "2", "3", "4", "5", "6", "7", "8", "9"}
Lower == {"a", "b", "c", "d", "e", "f", "g", "h", "i", "j", "k", "l", "m",
          "n", "o", "p", "q", "r", "s", "t", "u", "v", "w", "x", "y", "z"}
\* \s of a JavaScript regular expression, and what String.prototype.trim strips
Space == {" ", "\t", "\n", "\r", "\f"}
LARROW == "←"
BQ == "'"

CharAt(s, i) == SubSeq(s, i, i)

\* the positions of s at which the literal lit occurs
Occurrences(s, lit) ==
    {i \in 1..(Len(s) - Len(lit) + 1) : SubSeq(s, i, i + Len(lit) - 1) = lit}

\* String.prototype.trim
trim(s) ==
    LET keep == {i \in 1..Len(s) : CharAt(s, i) \notin Space}
    IN IF keep = {} THEN "" ELSE SubSeq(s, Min(keep), Max(keep))

\* String.prototype.split(sep), sep a non-empty literal
RECURSIVE split(_, _)
split(s, sep) ==
    LET at == Occurrences(s, sep)
    IN IF at = {} THEN <<s>>
       ELSE <<SubSeq(s, 1, Min(at) - 1)>>
                \o split(SubSeq(s, Min(at) + Len(sep), Len(s)), sep)

\* Array.prototype.join(sep)
RECURSIVE join(_, _)
join(parts, sep) ==
    IF parts = <<>> THEN ""
    ELSE IF Len(parts) = 1 THEN parts[1]
    ELSE parts[1] \o sep \o join(Tail(parts), sep)

\* String.prototype.replace(/lit/g, "")
RECURSIVE removeAll(_, _)
removeAll(s, lit) ==
    LET at == Occurrences(s, lit)
    IN IF at = {} THEN s
       ELSE SubSeq(s, 1, Min(at) - 1)
                \o removeAll(SubSeq(s, Min(at) + Len(lit), Len(s)), lit)

DigitValue(ch) == CHOOSE d \in 0..9 : ToString(d) = ch

RECURSIVE DecimalValue(_)
DecimalValue(ds) ==
    IF ds = "" THEN 0
    ELSE 10 * DecimalValue(SubSeq(ds, 1, Len(ds) - 1)) + DigitValue(CharAt(ds, Len(ds)))

(* JavaScript values that are a number, NaN, a string, null or undefined *)
Num(n) == [type |-> "number", n |-> n]
NaN == [type |-> "NaN"]
Str(s) == [type |-> "string", s |-> s]
Null == [type |-> "null"]
Undefined == [type |-> "undefined"]

\* parseInt(s, 10): leading white space, an optional sign, then the longest run
\* of digits; NaN when there is no digit there
parseInt(s) ==
    LET body == {i \in 1..Len(s) : CharAt(s, i) \notin Space}
        from == IF body = {} THEN Len(s) + 1 ELSE Min(body)
        signed == from <= Len(s) /\ CharAt(s, from) \in {"-", "+"}
        first == IF signed THEN from + 1 ELSE from
        stop == {i \in first..Len(s) : CharAt(s, i) \notin Digit} \cup {Len(s) + 1}
        digits == SubSeq(s, first, Min(stop) - 1)
    IN IF digits = "" THEN NaN
       ELSE IF signed /\ CharAt(s, from) = "-" THEN Num(0 - DecimalValue(digits))
       ELSE Num(DecimalValue(digits))

-----------------------------------------------------------------------------
(* Regular expressions.  A pattern is a sequence of nodes; Match follows   *)
(* the backtracking order of the JavaScript matcher: a greedy quantifier   *)
(* takes the longest run after which the rest of the pattern matches, a    *)
(* lazy one the shortest, and an optional part is tried before it is left  *)
(* out.  Quantifiers range over one character class, which is all the      *)
(* source's patterns need.                                                 *)

In(cs) == [neg |-> FALSE, set |-> cs]
NotIn(cs) == [neg |-> TRUE, set |-> cs]
AnyChar == NotIn({})                  \* [\s\S]
Dot == NotIn({"\n", "\r"})            \* .
Accepts(c, ch) == (ch \in c.set) # c.neg

Unbounded == 1000000

Lit(str) == [t |-> "lit", s |-> str]
Rep(c, lo, hi, greedy) == [t |-> "rep", c |-> c, lo |-> lo, hi |-> hi, greedy |-> greedy]
Plus(c) == Rep(c, 1, Unbounded, TRUE)
LazyStar(c) == Rep(c, 0, Unbounded, FALSE)
Times(c, n) == Rep(c, n, n, TRUE)
Opt(rs) == [t |-> "opt", rs |-> rs]
Grp(n, rs) == [t |-> "grp", n |-> n, rs |-> rs]
Look(alts) == [t |-> "look", alts |-> alts]
Bos == [t |-> "bos"]                  \* ^ without the m flag
Eos == [t |-> "eos"]                  \* $ without the m flag

NGroups == 6
\* a capture is <<>> (the group did not take part: undefined) or <<text>>
NoCaps == [n \in 1..NGroups |-> <<>>]
NoMatch == [ok |-> FALSE]

\* the matcher looks for the end of a run, and for the place of a match,
\* Stride characters at a time
Stride == 16

\* where the run of characters of class c that starts at i ends (one past it),
\* at most hi characters long
RECURSIVE RunEnd(_, _, _, _)
RunEnd(s, i, c, hi) ==
    IF c = AnyChar THEN (IF Len(s) + 1 - i > hi THEN i + hi ELSE Len(s) + 1)
    ELSE LET stop == {j \in i..(i + Stride - 1) :
                         j > Len(s) \/ j - i >= hi \/ ~Accepts(c, CharAt(s, j))}
         IN IF stop # {} THEN Min(stop) ELSE RunEnd(s, i + Stride, c, hi - Stride)

RECURSIVE Match(_, _, _, _), Longest(_, _, _, _, _), Shortest(_, _, _, _, _)
\* the match of the pattern rest at the last position of lo..j where it matches
Longest(rest, s, j, lo, caps) ==
    IF j < lo THEN NoMatch
    ELSE LET m == Match(rest, s, j, caps)
         IN IF m.ok THEN m ELSE Longest(rest, s, j - 1, lo, caps)

\* the match of the pattern rest at the first position of j..hi where it matches
Shortest(rest, s, j, hi, caps) ==
    IF j > hi THEN NoMatch
    ELSE LET K == {k \in j..Min({hi, j + Stride - 1}) : Match(rest, s, k, caps).ok}
         IN IF K # {} THEN Match(rest, s, Min(K), caps)
            ELSE Shortest(rest, s, j + Stride, hi, caps)

Match(rs, s, i, caps) ==
    IF rs = <<>> THEN [ok |-> TRUE, end |-> i, caps |-> caps]
    ELSE LET r == Head(rs)
             rest == Tail(rs)
         IN CASE r.t = "lit" ->
                   IF i + Len(r.s) - 1 <= Len(s) /\ SubSeq(s, i, i + Len(r.s) - 1) = r.s
                   THEN Match(rest, s, i + Len(r.s), caps)
                   ELSE NoMatch
              [] r.t = "rep" /\ r.greedy ->
                   Longest(rest, s, RunEnd(s, i, r.c, r.hi), i + r.lo, caps)
              [] r.t = "rep" /\ ~r.greedy ->
                   Shortest(rest, s, i + r.lo, RunEnd(s, i, r.c, r.hi), caps)
              [] r.t = "opt" ->
                   LET with == Match(r.rs \o rest, s, i, caps)
                   IN IF with.ok THEN with ELSE Match(rest, s, i, caps)
              [] r.t = "grp" ->
                   Match(r.rs \o <<[t |-> "endgrp", n |-> r.n, from |-> i]>> \o rest,
                         s, i, caps)
              [] r.t = "endgrp" ->
                   Match(rest, s, i, [caps EXCEPT ![r.n] = <<SubSeq(s, r.from, i - 1)>>])
              [] r.t = "look" ->
                   IF \E a \in DOMAIN r.alts : Match(r.alts[a], s, i, caps).ok
                   THEN Match(rest, s, i, caps)
                   ELSE NoMatch
              [] r.t = "bos" -> IF i = 1 THEN Match(rest, s, i, caps) ELSE NoMatch
              [] r.t = "eos" ->
                   IF i = Len(s) + 1 THEN Match(rest, s, i, caps) ELSE NoMatch

\* RegExp.prototype.exec with lastIndex = from - 1 (String.prototype.match when
\* from = 1): the leftmost match at or after from.  index and end are 1-based,
\* end is one past the match.
Found(index, m) == [ok |-> TRUE, index |-> index, end |-> m.end, caps |-> m.caps]

RECURSIVE Exec(_, _, _), ExecAmong(_, _, _, _)
\* starts are the positions of from..(from + Stride - 1) where the pattern matches
ExecAmong(re, s, from, starts) ==
    IF starts = {} THEN Exec(re, s, from + Stride)
    ELSE Found(Min(starts), Match(re, s, Min(starts), NoCaps))

Exec(re, s, from) ==
    IF from > Len(s) + 1 THEN NoMatch
    ELSE ExecAmong(re, s, from,
                   {i \in from..Min({Len(s) + 1, from + Stride - 1}) :
                        Match(re, s, i, NoCaps).ok})

\* RegExp.prototype.test
Test(re, s) == Exec(re, s, 1).ok

-----------------------------------------------------------------------------
(* extractMarkdownParts: extraction without validation *)

\* /^---\n([\s\S]*?)\n---/
frontmatterRegex == <<Bos, Lit("---\n"), Grp(1, <<LazyStar(AnyChar)>>), Lit("\n---")>>

\* /## Goal\n([^\n#]+)/
goalRegex == <<Lit("## Goal\n"), Grp(1, <<Plus(NotIn({"\n", "#"}))>>)>>

\* /## Phase (\d+): ([^[]+)\[([^\]]+)\]\n([\s\S]*?)(?=## Phase \d+:|## Notes|## Blockers|$)/g
phaseRegex ==
    <<Lit("## Phase "), Grp(1, <<Plus(In(Digit))>>), Lit(": "),
      Grp(2, <<Plus(NotIn({"["}))>>), Lit("["), Grp(3, <<Plus(NotIn({"]"}))>>),
      Lit("]\n"), Grp(4, <<LazyStar(AnyChar)>>),
      Look(<< <<Lit("## Phase "), Plus(In(Digit)), Lit(":")>>,
              <<Lit("## Notes")>>, <<Lit("## Blockers")>>, <<Eos>> >>)>>

\* /- \[([ x])\] (\*\*)?(\d+\.\d+) ([^←\n]+)(← CURRENT)?.*?(`ref:[a-z]+-[a-z]+-[a-z]+`)?/g
taskRegex ==
    <<Lit("- ["), Grp(1, <<Times(In({" ", "x"}), 1)>>), Lit("] "),
      Opt(<<Grp(2, <<Lit("**")>>)>>),
      Grp(3, <<Plus(In(Digit)), Lit("."), Plus(In(Digit))>>), Lit(" "),
      Grp(4, <<Plus(NotIn({LARROW, "\n"}))>>),
      Opt(<<Grp(5, <<Lit(LARROW \o " CURRENT")>>)>>),
      LazyStar(Dot),
      Opt(<<Grp(6, <<Lit(BQ \o "ref:"), Plus(In(Lower)), Lit("-"), Plus(In(Lower)),
                     Lit("-"), Plus(In(Lower)), Lit(BQ)>>)>>)>>

\* the object with the property key set to value
withProperty(object, key, value) ==
    [k \in (DOMAIN object) \cup {key} |-> IF k = key THEN value ELSE object[k]]

\* one turn of the loop over fmLines; key and valueParts are the parts of
\* line.split(":")
frontmatterLine(frontmatter, key, valueParts) ==
    IF key # "" /\ Len(valueParts) > 0
    THEN withProperty(frontmatter, trim(key),
                      IF trim(key) = "phase" THEN parseInt(trim(join(valueParts, ":")))
                      ELSE Str(trim(join(valueParts, ":"))))
    ELSE frontmatter

\* the frontmatter object after the lines fmLines[1..n]: a function from the
\* keys set so far to their values, a later line overwriting an earlier one
RECURSIVE frontmatterOf(_, _)
frontmatterOf(fmLines, n) ==
    IF n = 0 THEN <<>>
    ELSE frontmatterLine(frontmatterOf(fmLines, n - 1),
                         Head(split(fmLines[n], ":")), Tail(split(fmLines[n], ":")))

frontmatterFrom(fmMatch) ==
    IF fmMatch.ok
    THEN [type |-> "object",
          fields |-> frontmatterOf(split(fmMatch.caps[1][1], "\n"),
                                   Len(split(fmMatch.caps[1][1], "\n")))]
    ELSE Null

\* goalMatch?.[1]?.trim() || null
goalFrom(goalMatch) ==
    IF goalMatch.ok /\ trim(goalMatch.caps[1][1]) # ""
    THEN Str(trim(goalMatch.caps[1][1]))
    ELSE Null

taskFrom(taskMatch) ==
    [id |-> taskMatch.caps[3][1],
     checked |-> (taskMatch.caps[1][1] = "x"),
     content |-> removeAll(trim(taskMatch.caps[4][1]), "**"),
     isCurrent |-> (taskMatch.caps[5] # <<>>),
     citation |-> IF taskMatch.caps[6] = <<>> THEN Undefined
                  ELSE Str(removeAll(taskMatch.caps[6][1], BQ))]

\* the loop over taskRegex.exec(phaseContent): tasksFrom runs exec with
\* lastIndex = from - 1, tasksAfter is the loop from its result on
RECURSIVE tasksFrom(_, _), tasksAfter(_, _)
tasksAfter(phaseContent, taskMatch) ==
    IF ~taskMatch.ok THEN <<>>
    ELSE <<taskFrom(taskMatch)>> \o tasksFrom(phaseContent, taskMatch.end)

tasksFrom(phaseContent, from) ==
    tasksAfter(phaseContent, Exec(taskRegex, phaseContent, from))

phaseFrom(phaseMatch) ==
    [number |-> parseInt(phaseMatch.caps[1][1]),
     name |-> trim(phaseMatch.caps[2][1]),
     status |-> trim(phaseMatch.caps[3][1]),
     tasks |-> tasksFrom(phaseMatch.caps[4][1], 1)]

\* the loop over phaseRegex.exec(content), in the same two parts
RECURSIVE phasesFrom(_, _), phasesAfter(_, _)
phasesAfter(content, phaseMatch) ==
    IF ~phaseMatch.ok THEN <<>>
    ELSE <<phaseFrom(phaseMatch)>> \o phasesFrom(content, phaseMatch.end)

phasesFrom(content, from) ==
    phasesAfter(content, Exec(phaseRegex, content, from))

extractMarkdownParts(content) ==
    [frontmatter |-> frontmatterFrom(Exec(frontmatterRegex, content, 1)),
     goal |-> goalFrom(Exec(goalRegex, content, 1)),
     phases |-> phasesFrom(content, 1)]

-----------------------------------------------------------------------------
(* The Zod schemas.  A schema is the sequence of issues it raises on a     *)
(* value, in the order Zod reports them: the keys of an object in the      *)
(* order of its shape, the elements of an array in index order.  An issue  *)
(* keeps its path (array indices already in decimal, as join(".") prints   *)
(* them), its code, Zod's message, and the input and the accepted values   *)
(* formatZodErrors reads.                                                  *)

Issue(path, code, message, in, values) ==
    [path |-> path, code |-> code, message |-> message, input |-> in, values |-> values]

\* `${value}`
Display(v) ==
    CASE v.type = "string" -> v.s
      [] v.type = "number" -> ToString(v.n)
      [] OTHER -> v.type

InvalidType(path, expected, v) ==
    <<Issue(path, "invalid_type",
            "Invalid input: expected " \o expected \o ", received " \o v.type, v, <<>>)>>

\* z.enum(values)
EnumIssues(v, values, path) ==
    IF v.type = "string" /\ \E i \in DOMAIN values : values[i] = v.s THEN <<>>
    ELSE <<Issue(path, "invalid_value",
                 "Invalid option: expected one of " \o join(values, "|"), v, values)>>

\* z.string().regex(re, message)
RegexIssues(v, re, message, path) ==
    IF v.type # "string" THEN InvalidType(path, "string", v)
    ELSE IF Test(re, v.s) THEN <<>>
    ELSE <<Issue(path, "invalid_format", message, v, <<>>)>>

\* z.string().min(n, message)
MinLengthIssues(v, n, message, path) ==
    IF v.type # "string" THEN InvalidType(path, "string", v)
    ELSE IF Len(v.s) >= n THEN <<>>
    ELSE <<Issue(path, "too_small", message, v, <<>>)>>

\* z.number().int().positive(); parseInt yields no fraction
PositiveIntIssues(v, path) ==
    IF v.type # "number" THEN InvalidType(path, "number", v)
    ELSE IF v.n > 0 THEN <<>>
    ELSE <<Issue(path, "too_small", "Too small: expected number to be >0", v, <<>>)>>

PhaseStatus == <<"PENDING", "IN PROGRESS", "COMPLETE", "BLOCKED">>
FrontmatterStatus == <<"not-started", "in-progress", "complete", "blocked">>

\* /^\d+\.\d+$/
taskIdRegex == <<Bos, Plus(In(Digit)), Lit("."), Plus(In(Digit)), Eos>>
\* /^ref:[a-z]+-[a-z]+-[a-z]+$/
citationRegex == <<Bos, Lit("ref:"), Plus(In(Lower)), Lit("-"), Plus(In(Lower)), Lit("-"),
                   Plus(In(Lower)), Eos>>
\* /^\d{4}-\d{2}-\d{2}$/
dateRegex == <<Bos, Times(In(Digit), 4), Lit("-"), Times(In(Digit), 2), Lit("-"),
               Times(In(Digit), 2), Eos>>

\* checked and isCurrent are booleans by construction
TaskSchema(task, path) ==
    RegexIssues(Str(task.id), taskIdRegex, "Task ID must be hierarchical (e.g., '2.1')",
                path \o <<"id">>)
    \o MinLengthIssues(Str(task.content), 1, "Task content cannot be empty",
                       path \o <<"content">>)
    \o (IF task.citation = Undefined THEN <<>>
        ELSE RegexIssues(task.citation, citationRegex,
                         "Citation must be ref:word-word-word format",
                         path \o <<"citation">>))

RECURSIVE TaskArrayIssues(_, _, _)
TaskArrayIssues(tasks, n, path) ==
    IF n = 0 THEN <<>>
    ELSE TaskArrayIssues(tasks, n - 1, path)
             \o TaskSchema(tasks[n], path \o <<ToString(n - 1)>>)

PhaseSchema(phase, path) ==
    PositiveIntIssues(phase.number, path \o <<"number">>)
    \o MinLengthIssues(Str(phase.name), 1, "Phase name cannot be empty", path \o <<"name">>)
    \o EnumIssues(Str(phase.status), PhaseStatus, path \o <<"status">>)
    \o (IF Len(phase.tasks) < 1
        THEN <<Issue(path \o <<"tasks">>, "too_small", "Phase must have at least one task",
                     Undefined, <<>>)>>
        ELSE TaskArrayIssues(phase.tasks, Len(phase.tasks), path \o <<"tasks">>))

RECURSIVE PhaseArrayIssues(_, _, _)
PhaseArrayIssues(phases, n, path) ==
    IF n = 0 THEN <<>>
    ELSE PhaseArrayIssues(phases, n - 1, path)
             \o PhaseSchema(phases[n], path \o <<ToString(n - 1)>>)

Field(object, key) == IF key \in DOMAIN object THEN object[key] ELSE Undefined

FrontmatterSchema(fm, path) ==
    IF fm.type # "object" THEN InvalidType(path, "object", fm)
    ELSE EnumIssues(Field(fm.fields, "status"), FrontmatterStatus, path \o <<"status">>)
         \o PositiveIntIssues(Field(fm.fields, "phase"), path \o <<"phase">>)
         \o RegexIssues(Field(fm.fields, "updated"), dateRegex, "Date must be YYYY-MM-DD",
                        path \o <<"updated">>)

\* the candidate has no context key, and context is optional
PlanSchema(candidate) ==
    FrontmatterSchema(candidate.frontmatter, <<"frontmatter">>)
    \o MinLengthIssues(candidate.goal, 10, "Goal must be at least 10 characters", <<"goal">>)
    \o (IF Len(candidate.phases) < 1
        THEN <<Issue(<<"phases">>, "too_small", "Plan must have at least one phase",
                     Undefined, <<>>)>>
        ELSE PhaseArrayIssues(candidate.phases, Len(candidate.phases), <<"phases">>))

formatIssue(issue) ==
    LET path == IF Len(issue.path) > 0 THEN "[" \o join(issue.path, ".") \o "]" ELSE "[root]"
        message ==
            IF issue.code = "invalid_value"
            THEN "Invalid value \"" \o Display(issue.input) \o "\". Expected: "
                     \o join(issue.values, " | ")
            ELSE IF issue.code = "invalid_type" /\ issue.input = Null
            THEN "Required field missing"
            ELSE issue.message
    IN path \o ": " \o message

\* a report of the first issue alone
formatZodErrors_first(issues) == formatIssue(issues[1])

formatZodErrors(issues) ==
    join([i \in DOMAIN issues |-> formatIssue(issues[i])], "\n")

-----------------------------------------------------------------------------
(* parsePlanMarkdown *)

skillHint == "Load skill('plan-protocol') for the full format spec."

\* a count of the marked tasks that starts again in each phase: its greatest value
RECURSIVE currentCountOf_per_phase(_)
currentCountOf_per_phase(phases) ==
    IF phases = <<>> THEN 0
    ELSE Max({Cardinality({j \in DOMAIN Head(phases).tasks : Head(phases).tasks[j].isCurrent}),
              currentCountOf_per_phase(Tail(phases))})

RECURSIVE currentCountOf(_)
currentCountOf(phases) ==
    IF phases = <<>> THEN 0
    ELSE Cardinality({j \in DOMAIN Head(phases).tasks : Head(phases).tasks[j].isCurrent})
             + currentCountOf(Tail(phases))

inProgressCountOf(phases) ==
    Cardinality({p \in DOMAIN phases : phases[p].status = "IN PROGRESS"})

multipleCurrentError(currentCount) ==
    "Multiple tasks marked " \o LARROW \o " CURRENT (found " \o ToString(currentCount)
        \o "). Only one task may be current."

inProgressWarning ==
    "Multiple phases marked IN PROGRESS. Consider focusing on one phase at a time."

\* the business rules, on the data of a candidate that passed the schema
businessRules(data, currentCount, inProgressCount) ==
    IF currentCount > 1
    THEN [ok |-> FALSE, error |-> multipleCurrentError(currentCount), hint |-> skillHint]
    ELSE [ok |-> TRUE, data |-> data,
          warnings |-> IF inProgressCount > 1 THEN <<inProgressWarning>> ELSE <<>>]

\* the business rules run first, and the schema only on a candidate that passes them
safeParsed_rules_first(candidate, issues) ==
    IF currentCountOf(candidate.phases) > 1
    THEN [ok |-> FALSE, error |-> multipleCurrentError(currentCountOf(candidate.phases)),
          hint |-> skillHint]
    ELSE IF issues # <<>>
    THEN [ok |-> FALSE, error |-> formatZodErrors(issues), hint |-> skillHint]
    ELSE [ok |-> TRUE, data |-> candidate,
          warnings |-> IF inProgressCountOf(candidate.phases) > 1
                       THEN <<inProgressWarning>> ELSE <<>>]

\* the result of PlanSchema.safeParse(candidate) and what follows it
safeParsed(candidate, issues) ==
    IF issues # <<>>
    THEN [ok |-> FALSE, error |-> formatZodErrors(issues), hint |-> skillHint]
    ELSE businessRules(candidate, currentCountOf(candidate.phases),
                       inProgressCountOf(candidate.phases))

validateCandidate(candidate) == safeParsed(candidate, PlanSchema(candidate))

\* content is a string here: the tool's argument schema admits nothing else
parsePlanMarkdown(content) ==
    IF trim(content) = ""
    THEN [ok |-> FALSE, error |-> "Empty content provided", hint |-> skillHint]
    ELSE validateCandidate(extractMarkdownParts(content))

formatParseError(error, hint) ==
    "Plan validation failed:\n\n" \o error \o "\n\n" \o hint

-----------------------------------------------------------------------------
(* Plan texts of the store's specification *)

Frontmatter == "---\nstatus: in-progress\nphase: 1\nupdated: 2025-01-01\n---\n"
Goal == "## Goal\nShip the thing\n"
PhaseOne == "## Phase 1: Setup [IN PROGRESS]\n"

\* spec.md, Scenario A: one task, marked
ScenarioA == Frontmatter \o Goal \o PhaseOne \o "- [ ] 1.1 Do it " \o LARROW \o " CURRENT\n"
\* Scenario B: a second task marked too
ScenarioB == ScenarioA \o "- [ ] 1.2 Do more " \o LARROW \o " CURRENT\n"
\* Scenario C: wrong date shape
ScenarioC ==
    "---\nstatus: in-progress\nphase: 1\nupdated: 01-01-2025\n---\n" \o Goal \o PhaseOne
        \o "- [ ] 1.1 Do it\n"
\* no task marked
Unmarked == Frontmatter \o Goal \o PhaseOne \o "- [x] 1.1 Do it\n- [ ] 1.2 Do more\n"
\* the second of two tasks marked, in the style of the README (bold current task)
SecondMarked ==
    Frontmatter \o Goal \o PhaseOne
        \o "- [x] 1.1 Do it\n- [ ] **1.2 Do more** " \o LARROW \o " CURRENT\n"
\* one marked task whose text is longer than the window before the marker
LongMarked ==
    Frontmatter \o Goal \o PhaseOne
        \o "- [ ] 1.1 Write the migration that moves every stored plan of the old layout"
        \o " into the directory of its root session " \o LARROW \o " CURRENT\n"

StoreTexts == {"", ScenarioA, ScenarioB, ScenarioC, Unmarked, SecondMarked, LongMarked}

(* Plan texts of the parser's specification: up to MaxPhases phases of up to *)
(* MaxTasks tasks each (every phase as long as the others), any of the      *)
(* tasks marked as current.                                                 *)

MaxPhases == 2
MaxTasks == 2

\* the lines of the tasks t..nTasks of phase p; marks holds the <<phase, task>>
\* pairs of the marked tasks
RECURSIVE taskLines(_, _, _, _)
taskLines(p, t, nTasks, marks) ==
    IF t > nTasks THEN ""
    ELSE "- [ ] " \o ToString(p) \o "." \o ToString(t) \o " Do step " \o ToString(t)
             \o (IF <<p, t>> \in marks THEN " " \o LARROW \o " CURRENT" ELSE "") \o "\n"
             \o taskLines(p, t + 1, nTasks, marks)

RECURSIVE phaseSections(_, _, _, _)
phaseSections(p, nPhases, nTasks, marks) ==
    IF p > nPhases THEN ""
    ELSE "## Phase " \o ToString(p) \o ": Stage [" \o (IF p = 1 THEN "IN PROGRESS" ELSE "PENDING")
             \o "]\n" \o taskLines(p, 1, nTasks, marks)
             \o phaseSections(p + 1, nPhases, nTasks, marks)

planText(nPhases, nTasks, marks) ==
    Frontmatter \o Goal \o phaseSections(1, nPhases, nTasks, marks)

PlanTexts ==
    {planText(nPhases, nTasks, marks) :
        <<nPhases, nTasks, marks>> \in
            UNION {{<<n, m, k>> : k \in SUBSET ((1..n) \X (1..m))} :
                       <<n, m>> \in (1..MaxPhases) \X (1..MaxTasks)}}

(* Plan texts that break the schema: each defect of Defects breaks one      *)
(* constraint, and a text has any set of them.                              *)

Defects == {"status", "phase", "updated", "goal", "phaseStatus", "tasks"}

defectText(D) ==
    "---\nstatus: " \o (IF "status" \in D THEN "doing" ELSE "in-progress")
        \o "\nphase: " \o (IF "phase" \in D THEN "0" ELSE "1")
        \o "\nupdated: " \o (IF "updated" \in D THEN "01-01-2025" ELSE "2025-01-01")
        \o "\n---\n## Goal\n" \o (IF "goal" \in D THEN "Ship it" ELSE "Ship the thing")
        \o "\n## Phase 1: Setup [" \o (IF "phaseStatus" \in D THEN "STARTED" ELSE "IN PROGRESS")
        \o "]\n" \o (IF "tasks" \in D THEN "" ELSE "- [ ] 1.1 Do it\n")

DefectTexts == {defectText(D) : D \in SUBSET Defects}

\* texts with a phase heading that no task line follows: the first of two
\* phases, the last one, the last one with other lines under it, the last one
\* with the heading as the last line of a text that does not end in a line
\* break; and a text without any phase
FirstPhaseEmpty ==
    Frontmatter \o Goal \o "## Phase 1: Setup [COMPLETE]\n"
        \o "## Phase 2: Build [IN PROGRESS]\n- [ ] 2.1 Do it\n"
LastPhaseEmpty ==
    Frontmatter \o Goal \o PhaseOne \o "- [ ] 1.1 Do it\n" \o "## Phase 2: Build [PENDING]\n"
LastPhaseProse ==
    Frontmatter \o Goal \o PhaseOne \o "- [ ] 1.1 Do it\n"
        \o "## Phase 2: Build [PENDING]\nTo be planned.\n* 2.1 Think\n"
LastPhaseUnterminated ==
    Frontmatter \o Goal \o PhaseOne \o "- [ ] 1.1 Do it\n" \o "## Phase 2: Build [PENDING]"
NoPhase == Frontmatter \o Goal
EmptyPhaseTexts ==
    {FirstPhaseEmpty, LastPhaseEmpty, LastPhaseProse, LastPhaseUnterminated, NoPhase}

\* a plan laid out as the example of the README is: a title, blank lines
\* between the sections, done and open tasks, the current one in bold
ReadmeStyle ==
    Frontmatter \o "\n# Implementation Plan\n\n## Goal\nAdd dark mode support.\n\n"
        \o "## Phase 1: Research [COMPLETE]\n- [x] 1.1 Research best practices\n"
        \o "- [x] 1.2 Audit color usage\n\n"
        \o "## Phase 2: Implementation [IN PROGRESS]\n- [x] 2.1 Create properties\n"
        \o "- [ ] **2.2 Add theme toggle** " \o LARROW \o " CURRENT\n"
\* a plan whose goal, of 19 characters, has a number sign in it
NumberSignGoal ==
    Frontmatter \o "## Goal\nSupport C# projects\n" \o PhaseOne \o "- [ ] 1.1 Do it\n"

\* plans with two and with three phases marked IN PROGRESS
TwoInProgress ==
    Frontmatter \o Goal \o PhaseOne \o "- [x] 1.1 Do it\n"
        \o "## Phase 2: Build [IN PROGRESS]\n- [ ] 2.1 Do more " \o LARROW \o " CURRENT\n"
ThreeInProgress == TwoInProgress \o "## Phase 3: Ship [IN PROGRESS]\n- [ ] 3.1 Do the rest\n"
BusyTexts == {TwoInProgress, ThreeInProgress}

\* plans with a task line whose citation token is not three words: after the
\* text, and after the marker
BadCitationTexts ==
    {Frontmatter \o Goal \o PhaseOne \o "- [ ] 1.1 Do it " \o BQ \o "ref:delegation-id" \o BQ \o "\n",
     Frontmatter \o Goal \o PhaseOne \o "- [ ] 1.1 Do it " \o LARROW \o " CURRENT "
         \o BQ \o "ref:delegation-id" \o BQ \o "\n"}

\* plans with a second task line whose id is not <int>.<int>
BadIdTexts ==
    {Frontmatter \o Goal \o PhaseOne \o "- [ ] 1.1 Do it\n- [ ] 1 Do more\n",
     Frontmatter \o Goal \o PhaseOne \o "- [ ] 1.1 Do it\n- [ ] 1.2.3 Do more\n"}

\* the texts the parser is given
\* texts that break the schema and the business rules at once: a status or a
\* date of the wrong form, or both, over two phases in progress with a task
\* marked as current in each
brokenAndMarkedTwice(D) ==
    "---\nstatus: " \o (IF "status" \in D THEN "doing" ELSE "in-progress")
        \o "\nphase: 1\nupdated: " \o (IF "updated" \in D THEN "01-01-2025" ELSE "2025-01-01")
        \o "\n---\n" \o Goal \o PhaseOne \o "- [ ] 1.1 Do it " \o LARROW \o " CURRENT\n"
        \o "## Phase 2: Build [IN PROGRESS]\n- [ ] 2.1 Do more " \o LARROW \o " CURRENT\n"
TwiceWrongTexts == {brokenAndMarkedTwice(D) : D \in (SUBSET {"status", "updated"}) \ {{}}}

\* task lines of the documented form that end with a citation token: after the
\* task's text, after the marker and a space, and right after the marker
Citation == "ref:swift-tiger-moon"
CitedTexts ==
    {Frontmatter \o Goal \o PhaseOne \o "- [ ] 1.1 Do it" \o tail \o BQ \o Citation \o BQ \o "\n" :
        tail \in {" ", " " \o LARROW \o " CURRENT ", " " \o LARROW \o " CURRENT"}}

ParserTexts ==
    PlanTexts \cup DefectTexts \cup EmptyPhaseTexts \cup {ReadmeStyle, NumberSignGoal}
        \cup BusyTexts \cup BadCitationTexts \cup BadIdTexts \cup CitedTexts
        \cup TwiceWrongTexts

\* parsePlanMarkdown is pure: its result on each text is computed once
Parsed == [content \in StoreTexts \cup ParserTexts |-> parsePlanMarkdown(content)]

-----------------------------------------------------------------------------
(* The host's sessions.  The session store answers session.get(id) with    *)
(* the session's parentID, if it has one.                                  *)

ChainLength == 12
Sessions == 1..ChainLength

\* two session trees: 1 <- 2 <- 3, and 4 alone
Forest == (1 :> <<>>) @@ (2 :> <<1>>) @@ (3 :> <<2>>) @@ (4 :> <<>>)
\* one chain: each session the child of the next, the last one the root
Chain == [s \in Sessions |-> IF s < ChainLength THEN <<s + 1>> ELSE <<>>]

\* malformed parent links: 1 and 2 the parent of each other, 3 its own parent,
\* 4 a child of 1; and a sound tree, 5 <- 6
Rings ==
    (1 :> <<2>>) @@ (2 :> <<1>>) @@ (3 :> <<3>>) @@ (4 :> <<1>>) @@ (5 :> <<>>)
        @@ (6 :> <<5>>)

SessionGraphs == {Forest, Chain}

\* the sessions the host calls the tools and hooks from: every session of the
\* forest; of the chain its root and the sessions 9, 10 and 11 links below it
Callers ==
    IF parentID = Chain
    THEN {s \in Sessions : ChainLength - s \in {0, 9, 10, 11}}
    ELSE DOMAIN parentID

MaxTraversalDepth == 10

traversalError == "Failed to resolve root session: maximum traversal depth exceeded"

\* a traversal that gives up the climb after its first link
traverse_stopping_early(currentID, depth) ==
    IF parentID[currentID] = <<>> THEN [ok |-> TRUE, id |-> currentID]
    ELSE [ok |-> TRUE, id |-> parentID[currentID][1]]

\* the loop of getRootSessionID from the iteration that is about to look up currentID
RECURSIVE traverse(_, _)
traverse(currentID, depth) ==
    IF ~(depth < MaxTraversalDepth) THEN [ok |-> FALSE, error |-> traversalError]
    ELSE IF parentID[currentID] = <<>> THEN [ok |-> TRUE, id |-> currentID]
    ELSE traverse(parentID[currentID][1], depth + 1)

\* the number of ctx.client.session.get calls of that loop
RECURSIVE sessionGets(_, _)
sessionGets(currentID, depth) ==
    IF ~(depth < MaxTraversalDepth) THEN 0
    ELSE IF parentID[currentID] = <<>> THEN 1
    ELSE 1 + sessionGets(parentID[currentID][1], depth + 1)

\* a resolution that takes the session it was given for the root when the
\* climb finds none
getRootSessionID_lenient(sessionID) ==
    IF sessionID = <<>>
    THEN [ok |-> FALSE, error |-> "sessionID is required to resolve root session scope"]
    ELSE IF traverse(sessionID[1], 0).ok THEN traverse(sessionID[1], 0)
    ELSE [ok |-> TRUE, id |-> sessionID[1]]

\* sessionID is <<>> (none given) or <<id>>
getRootSessionID(sessionID) ==
    IF sessionID = <<>>
    THEN [ok |-> FALSE, error |-> "sessionID is required to resolve root session scope"]
    ELSE traverse(sessionID[1], 0)

-----------------------------------------------------------------------------
(* The identity of a project: getProjectId on the project's files, the      *)
(* repository's root commits and the cache file of its metadata directory.  *)

HexDigit == Digit \cup {"a", "b", "c", "d", "e", "f", "A", "B", "C", "D", "E", "F"}

\* /^[a-f0-9]{40}$/i
shaRegex == <<Bos, Times(In(HexDigit), 40), Eos>>
\* /^[a-f0-9]{16}$/i
hashRegex == <<Bos, Times(In(HexDigit), 16), Eos>>
\* /^gitdir:\s*(.+)$/m, from the start of a line on
gitdirRegex ==
    <<Lit("gitdir:"), Rep(In(Space), 0, Unbounded, TRUE), Grp(1, <<Plus(Dot)>>),
      Look(<< <<Lit("\n")>>, <<Lit("\r")>>, <<Eos>> >>)>>

\* String.prototype.match of a pattern that starts with ^ under the m flag:
\* the match at the first start of a line where the pattern matches
matchAmong(re, s, starts) ==
    IF starts = {} THEN NoMatch
    ELSE Found(Min(starts), Match(re, s, Min(starts), NoCaps))

matchAtLineStart(re, s) ==
    matchAmong(re, s,
               {i \in 1..(Len(s) + 1) :
                    /\ i = 1 \/ CharAt(s, i - 1) \in {"\n", "\r"}
                    /\ Match(re, s, i, NoCaps).ok})

\* the project roots getProjectId is called with
ProjectRoots == {"", "/repo", "/wt"}

\* crypto.createHash("sha256").update(projectRoot).digest("hex").slice(0, 16)
hashPath(projectRoot) ==
    CASE projectRoot = "/repo" -> "816fc349d3faebf8"
      [] projectRoot = "/wt" -> "4f2039ad90309b53"

\* the segments of a path from left to right: "" and "." are dropped, ".."
\* drops the segment before it
RECURSIVE normalized(_, _)
normalized(segments, done) ==
    IF segments = <<>> THEN done
    ELSE IF Head(segments) \in {"", "."} THEN normalized(Tail(segments), done)
    ELSE IF Head(segments) = ".."
    THEN normalized(Tail(segments),
                    IF done = <<>> THEN done ELSE SubSeq(done, 1, Len(done) - 1))
    ELSE normalized(Tail(segments), Append(done, Head(segments)))

\* path.resolve(from, to), from an absolute path (path.join gives the same then)
resolve(from, to) ==
    "/" \o join(normalized(split(IF CharAt(to, 1) = "/" THEN to ELSE from \o "/" \o to,
                                 "/"), <<>>), "/")

\* the entries of the file system: path -> directory or file with its text
Dir == [kind |-> "dir", text |-> ""]
File(text) == [kind |-> "file", text |-> text]
isFile(fs, path) == path \in DOMAIN fs /\ fs[path].kind = "file"
isDirectory(fs, path) == path \in DOMAIN fs /\ fs[path].kind = "dir"

\* the end of the worktree branch: the resolved metadata path must be a directory
checkedGitDir(fs, gitDir) ==
    IF isDirectory(fs, gitDir) THEN [ok |-> TRUE, dir |-> gitDir]
    ELSE [ok |-> FALSE,
          error |-> "getProjectId: Resolved gitdir " \o gitDir \o " is not a directory"]

\* the shared metadata directory of a worktree whose own one is resolvedGitdir
commonDir(fs, resolvedGitdir) ==
    checkedGitDir(fs,
        IF isFile(fs, resolve(resolvedGitdir, "commondir"))
        THEN resolve(resolvedGitdir, trim(fs[resolve(resolvedGitdir, "commondir")].text))
        ELSE resolve(resolvedGitdir, "../.."))

worktreeGitDir(projectRoot, fs, gitPath, match) ==
    IF ~match.ok
    THEN [ok |-> FALSE,
          error |-> "getProjectId: .git file exists but has invalid format at " \o gitPath]
    ELSE commonDir(fs, resolve(projectRoot, trim(match.caps[1][1])))

\* the metadata directory of a project root that has a .git entry
gitDirOf(projectRoot, fs, gitPath) ==
    IF isFile(fs, gitPath)
    THEN worktreeGitDir(projectRoot, fs, gitPath,
                        matchAtLineStart(gitdirRegex, fs[gitPath].text))
    ELSE [ok |-> TRUE, dir |-> gitPath]

\* the code units of the characters that the outputs of the query are made of,
\* in their order
CodeOrder == " 0123456789:ABCDEFabcdefghijklmnopqrstuvwxyz"
CodeUnit(ch) == CHOOSE i \in 1..Len(CodeOrder) : CharAt(CodeOrder, i) = ch

\* the order of Array.prototype.sort without a comparator
sortsBefore(a, b) ==
    LET differ == {i \in 1..Min({Len(a), Len(b)}) : CharAt(a, i) # CharAt(b, i)}
    IN IF differ = {} THEN Len(a) < Len(b)
       ELSE CodeUnit(CharAt(a, Min(differ))) < CodeUnit(CharAt(b, Min(differ)))

\* output.split("\n").filter(Boolean).map((x) => x.trim()), as the set of its elements
rootsOf(output) ==
    {trim(split(output, "\n")[i]) :
        i \in {j \in DOMAIN split(output, "\n") : split(output, "\n")[j] # ""}}

\* roots[0] of the sorted roots, whatever it is
firstRoot_unchecked(roots) ==
    IF roots = {} THEN <<>>
    ELSE <<CHOOSE r \in roots : \A other \in roots : ~sortsBefore(other, r)>>

\* roots[0] of the sorted roots, if it is there and is a commit hash
firstRoot(roots) ==
    IF roots = {} THEN <<>>
    ELSE LET first == CHOOSE r \in roots : \A other \in roots : ~sortsBefore(other, r)
         IN IF Test(shaRegex, first) THEN <<first>> ELSE <<>>

\* a cache that is trusted whatever it holds
validCache_any(cached) == TRUE

\* a cache file's trimmed content is trusted when it has the shape of a commit
\* hash or of a path hash
validCache(cached) == Test(shaRegex, cached) \/ Test(hashRegex, cached)

\* what the processes of the query can do: exit with a code, or not exit within
\* the 5 seconds allowed (<<>>)
Exits == {<<0>>, <<128>>, <<>>}
exitCodeOf(exited) == IF exited = <<>> THEN 1 ELSE exited[1]

\* a call's result: threw says that it ended by throwing (output is then the
\* error's message); cached is the text of the cache file it read, exited and
\* writes what the query and the write of the cache did if it came to them
Identity(projectRoot, cached, exited, writes, threw, output, fs) ==
    [projectRoot |-> projectRoot, cached |-> cached, exited |-> exited,
     writes |-> writes, threw |-> threw, output |-> output, fs |-> fs]

\* the query of the root commits and what follows it
generated(projectRoot, fs, cacheFile, cached, revList, exited, writes, root) ==
    IF exitCodeOf(exited) = 0 /\ root # <<>>
    THEN Identity(projectRoot, cached, <<exited>>, <<writes>>, FALSE, root[1],
                  IF writes THEN (cacheFile :> File(root[1])) @@ fs ELSE fs)
    ELSE Identity(projectRoot, cached, <<exited>>, <<>>, FALSE, hashPath(projectRoot), fs)

\* from the check of the cache on
fromCache(projectRoot, fs, cacheFile, revList, exited, writes) ==
    IF isFile(fs, cacheFile) /\ validCache(trim(fs[cacheFile].text))
    THEN Identity(projectRoot, <<fs[cacheFile].text>>, <<>>, <<>>, FALSE,
                  trim(fs[cacheFile].text), fs)
    ELSE generated(projectRoot, fs, cacheFile,
                   IF isFile(fs, cacheFile) THEN <<fs[cacheFile].text>> ELSE <<>>,
                   revList, exited, writes, firstRoot(rootsOf(revList)))

withGitDir(projectRoot, fs, gitDir, revList, exited, writes) ==
    IF ~gitDir.ok THEN Identity(projectRoot, <<>>, <<>>, <<>>, TRUE, gitDir.error, fs)
    ELSE fromCache(projectRoot, fs, resolve(gitDir.dir, "opencode"), revList, exited, writes)

\* getProjectId(projectRoot) on the files fs of a repository whose query of the
\* root commits prints revList when it succeeds
projectIdOf(projectRoot, fs, revList, exited, writes) ==
    IF projectRoot = ""
    THEN Identity(projectRoot, <<>>, <<>>, <<>>, TRUE,
                  "getProjectId: projectRoot is required and must be a string", fs)
    ELSE IF resolve(projectRoot, ".git") \notin DOMAIN fs
    THEN Identity(projectRoot, <<>>, <<>>, <<>>, FALSE, hashPath(projectRoot), fs)
    ELSE withGitDir(projectRoot, fs, gitDirOf(projectRoot, fs, resolve(projectRoot, ".git")),
                    revList, exited, writes)

NoProject == [fs |-> <<>>, revList |-> "", last |-> <<>>, ids |-> {}]

\* the project after a call that ended as id: last is the call's result with
\* the files it found, ids the identities given so far
recorded(before, id) ==
    [before EXCEPT !.fs = id.fs,
                   !.last = <<[id EXCEPT !.fs = before.fs]>>,
                   !.ids = @ \cup {[projectRoot |-> id.projectRoot, threw |-> id.threw,
                                    output |-> id.output]}]

getProjectId(projectRoot, exited, writes) ==
    /\ project' = recorded(project, projectIdOf(projectRoot, project.fs, project.revList,
                                                exited, writes))
    /\ UNCHANGED <<parentID, dirs, files, call, lastSaved, activeCoderCalls, running, now,
                   nextSweep, input>>

-----------------------------------------------------------------------------
(* The tools and the hooks *)

planSavedReminder ==
    "\n\n<system-reminder>\nPlan saved successfully. You MUST now delegate to the reviewer:\n"
        \o "1. Use the 'delegate' tool to send the plan to the 'reviewer' agent\n"
        \o "2. The reviewer will load 'plan-review' and 'code-philosophy' skills\n"
        \o "3. Use 'plan_read' to get the plan content for the delegation prompt\n"
        \o "4. This is NON-BLOCKING - continue work while review runs in background\n"
        \o "</system-reminder>"

coderCompleteReminder ==
    "\n\n<system-reminder>\nCoder task complete. Proceed to code review:\n"
        \o "1. Delegate to 'reviewer' agent with the changed files\n"
        \o "2. Include findings in your completion report\n"
        \o "3. Offer to fix any critical/major issues found\n"
        \o "</system-reminder>"

\* a call of a tool or a run of a hook, with what it gave back: threw says that
\* it ended by throwing (output is then the error's message), hooked that
\* tool.execute.after has run on its output;
\* fault is the error that the system rejected the call's read of a file with,
\* if it did
Call(tool, sessionID, callID, content, threw, output, context) ==
    [tool |-> tool, sessionID |-> sessionID, callID |-> callID, content |-> content,
     subagent_type |-> "", threw |-> threw, output |-> output, hooked |-> FALSE,
     context |-> context, fault |-> <<>>]

NoCall == Call("none", <<>>, <<>>, "", FALSE, "", <<>>)

PlanCallID == <<"call_plan">>

\* a result that says nothing of the warnings
warningText_silent(warnings) == ""

warningText(warnings) ==
    IF Len(warnings) > 0
    THEN " (" \o ToString(Len(warnings)) \o " warnings: " \o join(warnings, ", ") \o ")"
    ELSE ""

\* plan_save that writes the file before it validates the content
plan_save_writing_first(sessionID, content) ==
    LET root == getRootSessionID(sessionID)
        result == Parsed[content]
        returns(output) == Call("plan_save", sessionID, PlanCallID, content, FALSE, output, <<>>)
    IN /\ UNCHANGED <<project, parentID, activeCoderCalls, running, now, nextSweep, input>>
       /\ IF sessionID = <<>>
          THEN /\ call' = returns("plan_save requires sessionID. This is a system error.")
               /\ UNCHANGED <<dirs, files, lastSaved>>
          ELSE IF ~root.ok
          THEN /\ call' = Call("plan_save", sessionID, PlanCallID, content, TRUE, root.error, <<>>)
               /\ UNCHANGED <<dirs, files, lastSaved>>
          ELSE /\ dirs' = dirs \cup {root.id}
               /\ IF ~result.ok
                  THEN /\ call' = returns(formatParseError(result.error, result.hint))
                       /\ files' = [files EXCEPT ![root.id] = <<content>>]
                       /\ UNCHANGED lastSaved
                  ELSE /\ files' = [files EXCEPT ![root.id] = <<content>>]
                       /\ call' = returns("Plan saved." \o warningText(result.warnings))
                       /\ lastSaved' = [lastSaved EXCEPT ![root.id] =
                              <<[text |-> content, by |-> sessionID[1],
                                 replaced |-> files[root.id] \notin {<<>>, <<content>>}]>>]


\* plan_save that opens the file for writing before it validates: a rejected
\* content leaves the file empty
plan_save_truncating(sessionID, content) ==
    LET root == getRootSessionID(sessionID)
        result == Parsed[content]
        returns(output) == Call("plan_save", sessionID, PlanCallID, content, FALSE, output, <<>>)
    IN /\ UNCHANGED <<project, parentID, activeCoderCalls, running, now, nextSweep, input>>
       /\ IF sessionID = <<>>
          THEN /\ call' = returns("plan_save requires sessionID. This is a system error.")
               /\ UNCHANGED <<dirs, files, lastSaved>>
          ELSE IF ~root.ok
          THEN /\ call' = Call("plan_save", sessionID, PlanCallID, content, TRUE, root.error, <<>>)
               /\ UNCHANGED <<dirs, files, lastSaved>>
          ELSE /\ dirs' = dirs \cup {root.id}
               /\ IF ~result.ok
                  THEN /\ call' = returns(formatParseError(result.error, result.hint))
                       /\ files' = [files EXCEPT ![root.id] = <<"">>]
                       /\ UNCHANGED lastSaved
                  ELSE /\ files' = [files EXCEPT ![root.id] = <<content>>]
                       /\ call' = returns("Plan saved." \o warningText(result.warnings))
                       /\ lastSaved' = [lastSaved EXCEPT ![root.id] =
                              <<[text |-> content, by |-> sessionID[1],
                                 replaced |-> files[root.id] \notin {<<>>, <<content>>}]>>]


\* plan_save that stores the plan under the calling session, not under its root
plan_save_per_session(sessionID, content) ==
    LET root == getRootSessionID(sessionID)
        result == Parsed[content]
        returns(output) == Call("plan_save", sessionID, PlanCallID, content, FALSE, output, <<>>)
    IN /\ UNCHANGED <<project, parentID, activeCoderCalls, running, now, nextSweep, input>>
       /\ IF sessionID = <<>>
          THEN /\ call' = returns("plan_save requires sessionID. This is a system error.")
               /\ UNCHANGED <<dirs, files, lastSaved>>
          ELSE IF ~root.ok
          THEN /\ call' = Call("plan_save", sessionID, PlanCallID, content, TRUE, root.error, <<>>)
               /\ UNCHANGED <<dirs, files, lastSaved>>
          ELSE /\ dirs' = dirs \cup {root.id}
               /\ IF ~result.ok
                  THEN /\ call' = returns(formatParseError(result.error, result.hint))
                       /\ UNCHANGED <<files, lastSaved>>
                  ELSE /\ files' = [files EXCEPT ![sessionID[1]] = <<content>>]
                       /\ call' = returns("Plan saved." \o warningText(result.warnings))
                       /\ lastSaved' = [lastSaved EXCEPT ![root.id] =
                              <<[text |-> content, by |-> sessionID[1],
                                 replaced |-> files[root.id] \notin {<<>>, <<content>>}]>>]


\* plan_save that stores one plan for the whole project
plan_save_shared(sessionID, content) ==
    LET root == getRootSessionID(sessionID)
        result == Parsed[content]
        returns(output) == Call("plan_save", sessionID, PlanCallID, content, FALSE, output, <<>>)
    IN /\ UNCHANGED <<project, parentID, activeCoderCalls, running, now, nextSweep, input>>
       /\ IF sessionID = <<>>
          THEN /\ call' = returns("plan_save requires sessionID. This is a system error.")
               /\ UNCHANGED <<dirs, files, lastSaved>>
          ELSE IF ~root.ok
          THEN /\ call' = Call("plan_save", sessionID, PlanCallID, content, TRUE, root.error, <<>>)
               /\ UNCHANGED <<dirs, files, lastSaved>>
          ELSE /\ dirs' = dirs \cup {root.id}
               /\ IF ~result.ok
                  THEN /\ call' = returns(formatParseError(result.error, result.hint))
                       /\ UNCHANGED <<files, lastSaved>>
                  ELSE /\ files' = [r \in DOMAIN files |-> <<content>>]
                       /\ call' = returns("Plan saved." \o warningText(result.warnings))
                       /\ lastSaved' = [lastSaved EXCEPT ![root.id] =
                              <<[text |-> content, by |-> sessionID[1],
                                 replaced |-> files[root.id] \notin {<<>>, <<content>>}]>>]


plan_save(sessionID, content) ==
    LET root == getRootSessionID(sessionID)
        result == Parsed[content]
        returns(output) == Call("plan_save", sessionID, PlanCallID, content, FALSE, output, <<>>)
    IN /\ UNCHANGED <<project, parentID, activeCoderCalls, running, now, nextSweep, input>>
       /\ IF sessionID = <<>>
          THEN /\ call' = returns("plan_save requires sessionID. This is a system error.")
               /\ UNCHANGED <<dirs, files, lastSaved>>
          ELSE IF ~root.ok
          THEN /\ call' = Call("plan_save", sessionID, PlanCallID, content, TRUE, root.error, <<>>)
               /\ UNCHANGED <<dirs, files, lastSaved>>
          ELSE /\ dirs' = dirs \cup {root.id}
               /\ IF ~result.ok
                  THEN /\ call' = returns(formatParseError(result.error, result.hint))
                       /\ UNCHANGED <<files, lastSaved>>
                  ELSE /\ files' = [files EXCEPT ![root.id] = <<content>>]
                       /\ call' = returns("Plan saved." \o warningText(result.warnings))
                       /\ lastSaved' = [lastSaved EXCEPT ![root.id] =
                              <<[text |-> content, by |-> sessionID[1],
                                 replaced |-> files[root.id] \notin {<<>>, <<content>>}]>>]

\* what plan_read.execute gives back on the plan files store
plan_read_execute(sessionID, store) ==
    IF sessionID = <<>>
    THEN [threw |-> FALSE, output |-> "plan_read requires sessionID. This is a system error."]
    ELSE IF ~getRootSessionID(sessionID).ok
    THEN [threw |-> TRUE, output |-> getRootSessionID(sessionID).error]
    ELSE IF store[getRootSessionID(sessionID).id] = <<>>
    THEN [threw |-> FALSE, output |-> "No plan found."]
    ELSE [threw |-> FALSE, output |-> store[getRootSessionID(sessionID).id][1]]

\* plan_read that gives back the stored text without its surrounding white space
plan_read_trimmed(sessionID) ==
    /\ call' = Call("plan_read", sessionID, PlanCallID, "",
                    plan_read_execute(sessionID, files).threw,
                    trim(plan_read_execute(sessionID, files).output), <<>>)
    /\ UNCHANGED <<project, parentID, dirs, files, lastSaved, activeCoderCalls, running, now,
                   nextSweep, input>>

plan_read(sessionID) ==
    /\ call' = Call("plan_read", sessionID, PlanCallID, "",
                    plan_read_execute(sessionID, files).threw,
                    plan_read_execute(sessionID, files).output, <<>>)
    /\ UNCHANGED <<project, parentID, dirs, files, lastSaved, activeCoderCalls, running, now,
                   nextSweep, input>>

\* the errors fs.readFile rejects with: node says that the error carries a code
NoEntry ==
    [node |-> TRUE, code |-> "ENOENT",
     message |-> "ENOENT: no such file or directory, open 'plan.md'"]
ReadErrors ==
    {[node |-> TRUE, code |-> "EACCES",
      message |-> "EACCES: permission denied, open 'plan.md'"],
     [node |-> TRUE, code |-> "EISDIR",
      message |-> "EISDIR: illegal operation on a directory, read"],
     [node |-> FALSE, code |-> "", message |-> "The operation was aborted"]}

\* fs.readFile(planPath, "utf8") on the plan files store; the system rejects the
\* read with rejected[1] unless rejected is <<>>
readFile(store, rootID, rejected) ==
    IF rejected # <<>> THEN [ok |-> FALSE, error |-> rejected[1]]
    ELSE IF store[rootID] = <<>> THEN [ok |-> FALSE, error |-> NoEntry]
    ELSE [ok |-> TRUE, text |-> store[rootID][1]]

isNodeError(error) == error.node

\* a catch that takes every error for a missing file
caught_as_missing(read) ==
    IF read.ok THEN [threw |-> FALSE, output |-> read.text]
    ELSE [threw |-> FALSE, output |-> "No plan found."]

\* the try and the catch of plan_read.execute
caught(read) ==
    IF read.ok THEN [threw |-> FALSE, output |-> read.text]
    ELSE IF isNodeError(read.error) /\ read.error.code = "ENOENT"
    THEN [threw |-> FALSE, output |-> "No plan found."]
    ELSE [threw |-> TRUE, output |-> read.error.message]

\* plan_read.execute where the read of the file may be rejected
plan_read_rejecting(sessionID, store, rejected) ==
    IF sessionID = <<>> \/ ~getRootSessionID(sessionID).ok
    THEN plan_read_execute(sessionID, store)
    ELSE caught(readFile(store, getRootSessionID(sessionID).id, rejected))

\* plan_read on a system that rejects the read of the file with rejected[1],
\* or lets it through (<<>>)
plan_read_io(sessionID, rejected) ==
    /\ call' = [Call("plan_read", sessionID, PlanCallID, "",
                     plan_read_rejecting(sessionID, files, rejected).threw,
                     plan_read_rejecting(sessionID, files, rejected).output, <<>>)
                   EXCEPT !.fault = IF sessionID # <<>> /\ getRootSessionID(sessionID).ok
                                    THEN rejected ELSE <<>>]
    /\ UNCHANGED <<project, parentID, dirs, files, lastSaved, activeCoderCalls, running, now,
                   nextSweep, input>>

-----------------------------------------------------------------------------
(* The compaction hook *)

WindowBefore == 100
WindowAfter == 50

\* /\d+\.\d+ [^\n←]+/
resumeRegex == <<Plus(In(Digit)), Lit("."), Plus(In(Digit)), Lit(" "),
                 Plus(NotIn({"\n", LARROW}))>>

\* String.prototype.slice(start, end) for 0 <= start, with 0-based bounds
slice(s, start, end) == SubSeq(s, start + 1, IF end > Len(s) THEN Len(s) ELSE end)

\* String.prototype.match(re)?.[0] ?? null, found being the result of exec
firstMatch(s, found) == IF found.ok THEN <<SubSeq(s, found.index, found.end - 1)>> ELSE <<>>

matchIn(s, re) == firstMatch(s, Exec(re, s, 1))

\* the window around the marker found at the 0-based index
windowAt(planContent, index) ==
    slice(planContent, IF index - WindowBefore > 0 THEN index - WindowBefore ELSE 0,
          index + WindowAfter)

\* <<>> (null) or <<the text the hook takes for the current task>>; marks are
\* the places of the marker, at the first of which indexOf stops
currentTaskAmong(planContent, marks) ==
    IF marks = {} THEN <<>> ELSE matchIn(windowAt(planContent, Min(marks) - 1), resumeRegex)

currentTaskOf(planContent) ==
    currentTaskAmong(planContent, Occurrences(planContent, LARROW \o " CURRENT"))

resumePoint(currentTask) ==
    IF currentTask # <<>> /\ currentTask[1] # ""
    THEN "Current task: " \o currentTask[1]
    ELSE "No task marked as CURRENT"

\* a block that carries the resume point without the plan
contextBlock_without_plan(planContent) ==
    "<workspace-context>\n## Current Plan\n"
        \o "\n\n## Resume Point\n" \o resumePoint(currentTaskOf(planContent))
        \o "\n\n## Verification\nTo verify any cited decision, use 'delegation_read(\"ref:id\")'.\n"
        \o "</workspace-context>"

contextBlock(planContent) ==
    "<workspace-context>\n## Current Plan\n" \o planContent
        \o "\n\n## Resume Point\n" \o resumePoint(currentTaskOf(planContent))
        \o "\n\n## Verification\nTo verify any cited decision, use 'delegation_read(\"ref:id\")'.\n"
        \o "</workspace-context>"

\* contextBlock is pure: computed once for each text of the store
Block == [planContent \in StoreTexts |-> contextBlock(planContent)]

\* output.context is empty when the host calls the hook
session_compacting(sessionID) ==
    LET root == getRootSessionID(<<sessionID>>)
        ends(threw, output, context) ==
            Call("compacting", <<sessionID>>, <<>>, "", threw, output, context)
    IN /\ UNCHANGED <<project, parentID, dirs, files, lastSaved, activeCoderCalls, running, now,
                      nextSweep, input>>
       /\ IF ~root.ok
          THEN call' = ends(TRUE, root.error, <<>>)
          ELSE IF files[root.id] = <<>> \/ files[root.id] = <<"">>
          THEN call' = ends(FALSE, "", <<>>)
          ELSE call' = ends(FALSE, "", <<Block[files[root.id][1]]>>)

-----------------------------------------------------------------------------
(* The tool hooks and the tracking of in-flight coder calls *)

\* the call identifiers the host hands out
CallIDs == {"call_1", "call_2", "call_3", "call_plan"}
TaskCallIDs == CallIDs \ {"call_plan"}
SubagentTypes == {"coder", "reviewer"}

SweepIntervalMs == 60000
STALE_CALL_TIMEOUT_MS == 15 * 60 * 1000

\* the tracking map after tool.execute.before; callID is <<>> or <<id>>
tool_execute_before(tool, callID, subagent_type, tracked, time) ==
    IF tool # "task" THEN tracked
    ELSE IF callID = <<>> THEN tracked
    ELSE IF subagent_type # "coder" THEN tracked
    ELSE [tracked EXCEPT ![callID[1]] = <<time>>]

\* a hook that reminds at the completion of every tracked call
tool_execute_after_always(tool, callID, output, tracked) ==
    IF tool = "plan_save" THEN [output |-> output \o planSavedReminder, tracked |-> tracked]
    ELSE IF callID = <<>> THEN [output |-> output, tracked |-> tracked]
    ELSE IF tracked[callID[1]] = <<>> THEN [output |-> output, tracked |-> tracked]
    ELSE [output |-> output \o coderCompleteReminder,
          tracked |-> [tracked EXCEPT ![callID[1]] = <<>>]]

\* the output and the tracking map after tool.execute.after
tool_execute_after(tool, callID, output, tracked) ==
    IF tool = "plan_save" THEN [output |-> output \o planSavedReminder, tracked |-> tracked]
    ELSE IF callID = <<>> THEN [output |-> output, tracked |-> tracked]
    ELSE IF tracked[callID[1]] = <<>> THEN [output |-> output, tracked |-> tracked]
    ELSE LET left == [tracked EXCEPT ![callID[1]] = <<>>]
         IN [output |-> IF \A c \in DOMAIN left : left[c] = <<>>
                        THEN output \o coderCompleteReminder
                        ELSE output,
             tracked |-> left]

\* a sweep that takes the entries of 15 minutes with it
cleanup_at_least(tracked, time) ==
    [c \in DOMAIN tracked |->
        IF tracked[c] # <<>> /\ time - tracked[c][1] >= STALE_CALL_TIMEOUT_MS
        THEN <<>> ELSE tracked[c]]

\* the tracking map after one run of the cleanupInterval callback
cleanup(tracked, time) ==
    [c \in DOMAIN tracked |->
        IF tracked[c] # <<>> /\ time - tracked[c][1] > STALE_CALL_TIMEOUT_MS
        THEN <<>> ELSE tracked[c]]

\* the host runs tool.execute.after on the output of a plan tool that returned
AfterPlanTool ==
    LET after == tool_execute_after(call.tool, call.callID, call.output, activeCoderCalls)
    IN /\ call.tool \in {"plan_save", "plan_read"}
       /\ ~call.threw
       /\ ~call.hooked
       /\ call' = [call EXCEPT !.output = after.output, !.hooked = TRUE]
       /\ activeCoderCalls' = after.tracked
       /\ UNCHANGED <<project, parentID, dirs, files, lastSaved, running, now, nextSweep, input>>

-----------------------------------------------------------------------------
(* The plan store: the tools, the hook that follows them and compaction,   *)
(* called from any session of the host, in any order.                      *)

Init ==
    /\ parentID \in SessionGraphs
    /\ dirs = {}
    /\ files = [r \in Sessions |-> <<>>]
    /\ call = NoCall
    /\ lastSaved = [r \in Sessions |-> <<>>]
    /\ activeCoderCalls = [c \in CallIDs |-> <<>>]
    /\ running = {}
    /\ now = 0
    /\ nextSweep = SweepIntervalMs
    /\ input = ""
    /\ project = NoProject

Next ==
    \/ \E s \in Callers, content \in StoreTexts : plan_save(<<s>>, content)
    \/ \E content \in StoreTexts : plan_save(<<>>, content)
    \/ \E s \in Callers : plan_read(<<s>>)
    \/ plan_read(<<>>)
    \/ \E s \in Callers : session_compacting(s)
    \/ AfterPlanTool

Spec == Init /\ [][Next]_vars

-----------------------------------------------------------------------------
(* Properties of the plan store *)

StartsWith(s, prefix) == Len(s) >= Len(prefix) /\ SubSeq(s, 1, Len(prefix)) = prefix
EndsWith(s, suffix) ==
    Len(s) >= Len(suffix) /\ SubSeq(s, Len(s) - Len(suffix) + 1, Len(s)) = suffix
Contains(s, part) == Occurrences(s, part) # {}

\* the call record is the result of the named tool or hook, as it gave it back
\* (tool.execute.after has not run on it)
Returned(c, tool) == c.tool = tool /\ ~c.hooked
\* the root the call's session resolves to
RootOf(c) == getRootSessionID(c.sessionID)
Resolved(c) == c.sessionID # <<>> /\ RootOf(c).ok

\* C1: a plan_save whose content fails validation leaves every plan file as it
\* was (an existing file keeps its text, a missing one is not created), its
\* result is never "Plan saved.", and when the root session resolves it returns
\* the formatted validation error.
C1_InvalidSaveLeavesFile ==
    [][(Returned(call', "plan_save") /\ ~Parsed[call'.content].ok)
          => /\ files' = files
             /\ ~StartsWith(call'.output, "Plan saved.")
             /\ Resolved(call')
                   => /\ ~call'.threw
                      /\ call'.output = formatParseError(Parsed[call'.content].error,
                                                         Parsed[call'.content].hint)]_vars

\* a rejected plan_save under a root that has a plan file
C1_Witness ==
    /\ Returned(call, "plan_save")
    /\ Resolved(call)
    /\ ~Parsed[call.content].ok
    /\ StartsWith(call.output, "Plan validation failed:")
    /\ files[RootOf(call).id] # <<>>

\* C2: every plan file that exists holds a text that parsePlanMarkdown accepts.
C2_StoredPlansAreValid ==
    \A r \in DOMAIN files : files[r] # <<>> => Parsed[files[r][1]].ok

\* two roots hold a plan, and a plan_save under one of them has just been rejected
C2_Witness ==
    /\ Cardinality({r \in DOMAIN files : files[r] # <<>>}) = 2
    /\ Returned(call, "plan_save")
    /\ Resolved(call)
    /\ ~Parsed[call.content].ok

\* C3: a plan_save that answers "Plan saved." has stored exactly its content, and
\* a plan_read under a root gives back, character for character, the text of the
\* most recent successful save under that root.
C3_ReadReturnsLastSaved ==
    /\ (Returned(call, "plan_save") /\ StartsWith(call.output, "Plan saved."))
          => /\ Resolved(call)
             /\ lastSaved[RootOf(call).id] # <<>>
             /\ lastSaved[RootOf(call).id][1].text = call.content
    /\ (Returned(call, "plan_read") /\ Resolved(call) /\ lastSaved[RootOf(call).id] # <<>>)
          => /\ ~call.threw
             /\ call.output = lastSaved[RootOf(call).id][1].text

\* a plan_read after a save that replaced an earlier, different plan
C3_Witness ==
    /\ Returned(call, "plan_read")
    /\ Resolved(call)
    /\ lastSaved[RootOf(call).id] # <<>>
    /\ lastSaved[RootOf(call).id][1].replaced
    /\ call.output = lastSaved[RootOf(call).id][1].text

\* C4: the sessions that resolve to one root share one plan: a plan_read from
\* a session other than the one the plan was last saved from, with the same
\* root, gives back exactly the saved text.
C4_TreeSharesOnePlan ==
    (Returned(call, "plan_read") /\ Resolved(call) /\ lastSaved[RootOf(call).id] # <<>>
        /\ lastSaved[RootOf(call).id][1].by # call.sessionID[1])
       => /\ ~call.threw
          /\ call.output = lastSaved[RootOf(call).id][1].text

\* a sub-agent session reads the plan another sub-agent session saved
C4_Witness ==
    /\ Returned(call, "plan_read")
    /\ Resolved(call)
    /\ lastSaved[RootOf(call).id] # <<>>
    /\ {call.sessionID[1], lastSaved[RootOf(call).id][1].by, RootOf(call).id} = {1, 2, 3}
    /\ parentID = Forest
    /\ call.output = lastSaved[RootOf(call).id][1].text

\* C5: a plan_save under root R changes what plan_read gives back in no session
\* whose root is another one, and a plan_read under a root that never had a
\* successful save answers "No plan found.".
C5_OtherRootsUntouched ==
    [][/\ (Returned(call', "plan_save") /\ Resolved(call'))
             => \A s \in Callers :
                    (getRootSessionID(<<s>>).ok
                        /\ getRootSessionID(<<s>>).id # RootOf(call').id)
                       => plan_read_execute(<<s>>, files') = plan_read_execute(<<s>>, files)
       /\ (Returned(call', "plan_read") /\ Resolved(call')
              /\ lastSaved'[RootOf(call').id] = <<>>)
             => call'.output = "No plan found."]_vars

\* one root has a plan, and a session of the other tree, which never saved one,
\* has just read
C5_Witness ==
    /\ Returned(call, "plan_read")
    /\ Resolved(call)
    /\ lastSaved[RootOf(call).id] = <<>>
    /\ \E r \in DOMAIN files : r # RootOf(call).id /\ files[r] # <<>>
    /\ call.output = "No plan found."

\* the tasks the parser flags as current, each with its id and text
RECURSIVE markedTasks(_)
markedTasks(phases) ==
    IF phases = <<>> THEN {}
    ELSE {[id |-> Head(phases).tasks[j].id, content |-> Head(phases).tasks[j].content] :
              j \in {k \in DOMAIN Head(phases).tasks : Head(phases).tasks[k].isCurrent}}
             \cup markedTasks(Tail(phases))

\* the Resume Point section of a context block holds exactly this text
ResumePointIs(block, text) ==
    Contains(block, "\n\n## Resume Point\n" \o text \o "\n\n## Verification\n")
ResumePointStartsWith(block, text) == Contains(block, "\n\n## Resume Point\n" \o text)

\* C7: when the stored plan has exactly one task marked as current, the Resume
\* Point of the block the compaction hook appends names that task, by its own
\* id and text; it says "No task marked as CURRENT" only when no task is marked.
C7_ResumePointNamesMarkedTask ==
    (Returned(call, "compacting") /\ call.context # <<>>)
       => /\ \A t \in markedTasks(Parsed[files[RootOf(call).id][1]].data.phases) :
                 Cardinality(markedTasks(Parsed[files[RootOf(call).id][1]].data.phases)) = 1
                    => ResumePointStartsWith(call.context[1],
                                             "Current task: " \o t.id \o " " \o t.content)
          /\ ResumePointIs(call.context[1], "No task marked as CURRENT")
                => markedTasks(Parsed[files[RootOf(call).id][1]].data.phases) = {}

\* C8: once a plan is saved under a root, a compaction of any session of that
\* root appends exactly one block, which contains the whole stored text; when
\* the root has no plan file the hook appends nothing and does not throw.
C8_CompactionInjectsPlan ==
    (Returned(call, "compacting") /\ Resolved(call))
       => /\ ~call.threw
          /\ lastSaved[RootOf(call).id] # <<>>
                => /\ Len(call.context) = 1
                   /\ StartsWith(call.context[1],
                                 "<workspace-context>\n## Current Plan\n"
                                     \o lastSaved[RootOf(call).id][1].text
                                     \o "\n\n## Resume Point\n")
          /\ files[RootOf(call).id] = <<>> => call.context = <<>>

\* a compaction in a session other than the one that saved the plan of their root
C8_Witness ==
    /\ Returned(call, "compacting")
    /\ Resolved(call)
    /\ lastSaved[RootOf(call).id] # <<>>
    /\ lastSaved[RootOf(call).id][1].by # call.sessionID[1]
    /\ Len(call.context) = 1

\* C9: tool.execute.after appends the "Plan saved successfully" reminder to the
\* result of a plan_save only when that plan_save stored the plan.
C9_ReminderOnlyAfterSave ==
    (call.tool = "plan_save" /\ call.hooked /\ EndsWith(call.output, planSavedReminder))
       => /\ Resolved(call)
          /\ lastSaved[RootOf(call).id] # <<>>
          /\ lastSaved[RootOf(call).id][1].text = call.content

-----------------------------------------------------------------------------
(* The parser on the texts of ParserTexts: plan_save is called, from any      *)
(* session, with a text drawn at the start.                                 *)

InitParse ==
    /\ parentID = Forest
    /\ dirs = {}
    /\ files = [r \in Sessions |-> <<>>]
    /\ call = NoCall
    /\ lastSaved = [r \in Sessions |-> <<>>]
    /\ activeCoderCalls = [c \in CallIDs |-> <<>>]
    /\ running = {}
    /\ now = 0
    /\ nextSweep = SweepIntervalMs
    /\ input \in ParserTexts
    /\ project = NoProject

NextParse == \E s \in Callers : plan_save(<<s>>, input)

SpecParse == InitParse /\ [][NextParse]_vars

\* the number of tasks marked as current in a text of PlanTexts, where the
\* marker stands on task lines only
MarkedIn(text) == Cardinality(Occurrences(text, LARROW \o " CURRENT"))

\* C6: a text with two or more tasks marked as current, in one phase or in
\* several, fails validation with an error that gives the number of marked
\* tasks as "found N", and no plan file ever holds such a text.
C6_MultipleCurrentRejected ==
    /\ (Returned(call, "plan_save") /\ Resolved(call) /\ MarkedIn(call.content) >= 2)
          => /\ ~Parsed[call.content].ok
             /\ StartsWith(call.output, "Plan validation failed:")
             /\ Contains(call.output, "(found " \o ToString(MarkedIn(call.content)) \o ")")
    /\ \A r \in DOMAIN files : files[r] # <<>> => MarkedIn(files[r][1]) <= 1

\* the candidate extracted from the text breaks no constraint of the schema
SchemaFits(content) == PlanSchema(extractMarkdownParts(content)) = <<>>

\* C6, for the texts that the schema admits: a text with two or more tasks
\* marked as current that breaks no constraint of the schema fails validation
\* with an error that gives the number of marked tasks as "found N"; a text with
\* two or more marked tasks fails validation whether the schema admits it or
\* not, and no plan file ever holds such a text.
C6_MultipleCurrentOfValidFormRejected ==
    /\ (Returned(call, "plan_save") /\ Resolved(call) /\ MarkedIn(call.content) >= 2)
          => /\ ~Parsed[call.content].ok
             /\ StartsWith(call.output, "Plan validation failed:")
             /\ SchemaFits(call.content)
                   => Contains(call.output, "(found " \o ToString(MarkedIn(call.content)) \o ")")
    /\ \A r \in DOMAIN files : files[r] # <<>> => MarkedIn(files[r][1]) <= 1

\* a text with one marked task in each of two phases has been rejected
C6_Witness ==
    /\ Returned(call, "plan_save")
    /\ Resolved(call)
    /\ MarkedIn(call.content) = 2
    /\ Contains(call.content, "1.1 Do step 1 " \o LARROW)
    /\ Contains(call.content, "2.1 Do step 1 " \o LARROW)
    /\ Contains(call.output, "(found 2)")
    /\ files[RootOf(call).id] = <<>>

-----------------------------------------------------------------------------
(* The tracking of coder calls: task calls start and complete in any order, *)
(* the clock advances, and the cleanup timer fires every SweepIntervalMs.   *)
(* running holds the task calls that started and have not completed.        *)

MaxSweeps == 17
TaskOutput == "task result"

InitCoder ==
    /\ parentID = Forest
    /\ dirs = {}
    /\ files = [r \in Sessions |-> <<>>]
    /\ call = NoCall
    /\ lastSaved = [r \in Sessions |-> <<>>]
    /\ activeCoderCalls = [c \in CallIDs |-> <<>>]
    /\ running = {}
    /\ now = 0
    /\ nextSweep = SweepIntervalMs
    /\ input = ""
    /\ project = NoProject

\* the host starts a task call: tool.execute.before runs
TaskStart(callID, subagent_type) ==
    /\ \A c \in running : c.callID # callID
    /\ running' = running \cup {[callID |-> callID, subagent_type |-> subagent_type]}
    /\ activeCoderCalls' =
           tool_execute_before("task", <<callID>>, subagent_type, activeCoderCalls, now)
    /\ UNCHANGED <<project, parentID, dirs, files, call, lastSaved, now, nextSweep, input>>

\* a running task call completes: tool.execute.after runs on its output
TaskComplete(c) ==
    LET after == tool_execute_after("task", <<c.callID>>, TaskOutput, activeCoderCalls)
    IN /\ c \in running
       /\ running' = running \ {c}
       /\ activeCoderCalls' = after.tracked
       /\ call' = [tool |-> "task", sessionID |-> <<1>>, callID |-> <<c.callID>>,
                   content |-> "", subagent_type |-> c.subagent_type, threw |-> FALSE,
                   output |-> after.output, hooked |-> TRUE, context |-> <<>>,
                   fault |-> <<>>]
       /\ UNCHANGED <<project, parentID, dirs, files, lastSaved, now, nextSweep, input>>

\* the timer of cleanupInterval fires
cleanupInterval ==
    /\ now >= nextSweep
    /\ activeCoderCalls' = cleanup(activeCoderCalls, now)
    /\ nextSweep' = nextSweep + SweepIntervalMs
    /\ UNCHANGED <<project, parentID, dirs, files, call, lastSaved, running, now, input>>

\* time passes, up to the next run of the timer
Tick ==
    /\ now < nextSweep
    /\ now < MaxSweeps * SweepIntervalMs
    /\ now' = now + SweepIntervalMs
    /\ UNCHANGED <<project, parentID, dirs, files, call, lastSaved, activeCoderCalls, running,
                   nextSweep, input>>

NextCoder ==
    \/ \E callID \in TaskCallIDs, subagent_type \in SubagentTypes :
           TaskStart(callID, subagent_type)
    \/ \E c \in running : TaskComplete(c)
    \/ cleanupInterval
    \/ Tick

SpecCoder == InitCoder /\ [][NextCoder]_vars

\* C10: in every history of starts, completions and sweeps, when a coder call
\* that tool.execute.before registered completes and no other coder call is
\* still running, tool.execute.after appends the "Coder task complete" reminder
\* to the output of that call.
C10_ReminderWhenLastCoderCompletes ==
    [][\A c \in running :
          (/\ running' = running \ {c}
           /\ c.subagent_type = "coder"
           /\ \A d \in running' : d.subagent_type # "coder")
             => /\ call'.callID = <<c.callID>>
                /\ EndsWith(call'.output, coderCompleteReminder)]_vars

\* the coder calls that are running
Coders(calls) == {c \in calls : c.subagent_type = "coder"}
Reminded(c) == EndsWith(c.output, coderCompleteReminder)

\* C24: of coder calls that are in flight together and complete in any order,
\* none of them purged by the sweep, the last to complete gets the review
\* reminder and no other does; no completion gets it while another coder call
\* is left in the map.
C24_OnlyLastCompletionReminded ==
    [][\A c \in running :
          running' = running \ {c}
             => /\ Reminded(call') => \A d \in CallIDs : activeCoderCalls'[d] = <<>>
                /\ (c.subagent_type = "coder"
                      /\ \A d \in Coders(running) : activeCoderCalls[d.callID] # <<>>)
                      => (Reminded(call') <=> Coders(running') = {})]_vars

\* a coder call has completed without the reminder while two others, both in
\* the map, are still running
C24_Witness ==
    /\ call.tool = "task"
    /\ call.subagent_type = "coder"
    /\ ~Reminded(call)
    /\ Cardinality(Coders(running)) = 2
    /\ \A d \in Coders(running) : activeCoderCalls[d.callID] # <<>>

\* C25: a run of the sweep removes exactly the entries older than 15 minutes,
\* keeps every other entry with its start time and adds none; with the timer
\* firing every 60 seconds no entry is in the map for more than 15 minutes and
\* one interval.
C25_SweepRemovesStaleOnly ==
    [][/\ nextSweep' # nextSweep
          => \A c \in CallIDs :
                activeCoderCalls'[c] =
                    IF activeCoderCalls[c] # <<>>
                          /\ now - activeCoderCalls[c][1] > 15 * 60 * 1000
                    THEN <<>> ELSE activeCoderCalls[c]
       /\ \A c \in CallIDs :
             activeCoderCalls'[c] # <<>>
                => now' - activeCoderCalls'[c][1] <= 15 * 60 * 1000 + 60000]_vars

\* a sweep has run and left an entry that is exactly 15 minutes old
C25_Witness ==
    /\ nextSweep > now
    /\ \E c \in CallIDs :
          activeCoderCalls[c] # <<>> /\ now - activeCoderCalls[c][1] = 15 * 60 * 1000


-----------------------------------------------------------------------------
(* Properties of the resolution of the root session *)

\* the number of parent links between a session and the root of its tree
RECURSIVE LinksToRoot(_)
LinksToRoot(s) == IF parentID[s] = <<>> THEN 0 ELSE 1 + LinksToRoot(parentID[s][1])

\* a session with the sessions above it on its parent chain
RECURSIVE AncestorsOrSelf(_)
AncestorsOrSelf(s) ==
    IF parentID[s] = <<>> THEN {s} ELSE {s} \cup AncestorsOrSelf(parentID[s][1])

\* C11: the root of a session resolves whenever it is at most 10 parent links
\* above the session, 10 included, and the resolution fails with "maximum
\* traversal depth exceeded" exactly when more than 10 links would have to be
\* followed; seen at plan_read, which throws what the resolution throws.
C11_TenLinksResolve ==
    (Returned(call, "plan_read") /\ call.sessionID # <<>>)
       => /\ LinksToRoot(call.sessionID[1]) <= MaxTraversalDepth
                => (RootOf(call).ok /\ ~call.threw)
          /\ LinksToRoot(call.sessionID[1]) > MaxTraversalDepth
                => (call.threw /\ call.output = traversalError)

\* C12: a root that getRootSessionID returns is the session it was given or
\* one of its ancestors, and it has no parent; plans are kept under such
\* sessions only.
C12_RootHasNoParent ==
    /\ \A s \in Callers :
          getRootSessionID(<<s>>).ok
             => /\ getRootSessionID(<<s>>).id \in AncestorsOrSelf(s)
                /\ parentID[getRootSessionID(<<s>>).id] = <<>>
    /\ \A d \in dirs : parentID[d] = <<>>
    /\ \A r \in DOMAIN files : files[r] # <<>> => parentID[r] = <<>>

\* a session two links below its root has saved a plan, kept under the root
C12_Witness ==
    /\ Returned(call, "plan_save")
    /\ Resolved(call)
    /\ LinksToRoot(call.sessionID[1]) = 2
    /\ RootOf(call).id # call.sessionID[1]
    /\ files[RootOf(call).id] = <<call.content>>


-----------------------------------------------------------------------------
(* The identity of a project: getProjectId is called, again and again, on   *)
(* the roots of a project whose files and repository are drawn at the       *)
(* start; nothing but its own write of the cache changes them.              *)

PlainFiles == ("/" :> Dir) @@ ("/repo" :> Dir) @@ ("/wt" :> Dir)
RepositoryFiles == ("/repo/.git" :> Dir) @@ PlainFiles
\* a linked worktree at /wt, its metadata directory naming the shared one
WorktreeFiles ==
    ("/wt/.git" :> File("gitdir: /repo/.git/worktrees/wt\n"))
        @@ ("/repo/.git/worktrees" :> Dir) @@ ("/repo/.git/worktrees/wt" :> Dir)
        @@ ("/repo/.git/worktrees/wt/commondir" :> File("../..\n")) @@ RepositoryFiles
\* the same without a commondir file, and with a relative gitdir
OldWorktreeFiles ==
    ("/wt/.git" :> File("gitdir: ../repo/.git/worktrees/wt"))
        @@ ("/repo/.git/worktrees" :> Dir) @@ ("/repo/.git/worktrees/wt" :> Dir)
        @@ RepositoryFiles
\* indirection files that are malformed: no gitdir line; a gitdir that is gone
NoGitdirFiles == ("/wt/.git" :> File("worktree of /repo\n")) @@ RepositoryFiles
DanglingFiles == ("/wt/.git" :> File("gitdir: /gone/.git/worktrees/wt\n")) @@ RepositoryFiles

CommitA == "86f7e437faa5a7fce15d1ddcb9eaeaea377667b8"
CommitB == "e9d71f5ee7c92d6dc9e92ffdad17b8bd49418f98"

\* what the cache file can hold at the start
CacheTexts ==
    {CommitB, "E9D71F5EE7C92D6DC9E92FFDAD17B8BD49418F98\n", "  816fc349d3faebf8\n",
     "", "not an identity\n", "86f7e437faa5a7fce15d1ddcb9eaeaea377667b", CommitA \o "\n" \o CommitB}

\* what the query of the root commits prints when it succeeds: one root, two
\* roots, none (no commit yet), or something else than commit hashes
RevLists == {CommitA \o "\n", CommitB \o "\n" \o CommitA \o "\n", "", "warning: no refs\n"}

FileSystems ==
    {PlainFiles}
        \cup {files0 : files0 \in {RepositoryFiles, WorktreeFiles, OldWorktreeFiles,
                                   NoGitdirFiles, DanglingFiles}}
        \cup {("/repo/.git/opencode" :> File(text)) @@ files0 :
                 text \in CacheTexts, files0 \in {RepositoryFiles, WorktreeFiles}}

InitProject ==
    /\ parentID = Forest
    /\ dirs = {}
    /\ files = [r \in Sessions |-> <<>>]
    /\ call = NoCall
    /\ lastSaved = [r \in Sessions |-> <<>>]
    /\ activeCoderCalls = [c \in CallIDs |-> <<>>]
    /\ running = {}
    /\ now = 0
    /\ nextSweep = SweepIntervalMs
    /\ input = ""
    /\ project \in [fs : FileSystems, revList : RevLists, last : {<<>>}, ids : {{}}]

NextProject ==
    \E projectRoot \in ProjectRoots, exited \in Exits, writes \in BOOLEAN :
        getProjectId(projectRoot, exited, writes)

SpecProject == InitProject /\ [][NextProject]_vars


\* the string is made of n hexadecimal characters
IsHex(s, n) == Len(s) = n /\ \A i \in 1..n : CharAt(s, i) \in HexDigit

\* the smallest root commit of the repository whose query prints revList
RootCommitOf(revList) == IF Contains(revList, CommitA) THEN <<CommitA>> ELSE <<>>

\* the shared metadata directory that a worktree's indirection file leads to
SharedDirNamed(text) ==
    IF Contains(text, "repo/.git/worktrees/wt") THEN "/repo/.git" ELSE "/gone/.git"

\* the result of the last call, and that it came to the query and what the
\* query gave
Last == project.last[1]
Queried == Last.exited # <<>>
QueryGaveRoot == Last.exited = <<<<0>>>> /\ RootCommitOf(project.revList) # <<>>

\* C13: two calls of getProjectId on the same project root of an unchanged
\* repository give the same identity, whatever the cache file held at the
\* start and whether the query of the root commits succeeded, failed or timed
\* out in either call.
C13_SameIdentityTwice ==
    \A a, b \in project.ids : a.projectRoot = b.projectRoot => a = b

\* C14: a cache file whose trimmed content is neither 40 nor 16 hexadecimal
\* characters is never returned and never makes the call throw: the identity
\* is the root commit if the query gives one, else the hash of the path; a
\* content of one of the two shapes is returned, trimmed.
C14_CorruptCacheRegenerated ==
    (project.last # <<>> /\ Last.cached # <<>>)
       => /\ ~Last.threw
          /\ IF IsHex(trim(Last.cached[1]), 40) \/ IsHex(trim(Last.cached[1]), 16)
             THEN Last.output = trim(Last.cached[1])
             ELSE /\ Last.output \notin {Last.cached[1], trim(Last.cached[1])}
                  /\ Queried
                  /\ Last.output = IF QueryGaveRoot THEN RootCommitOf(project.revList)[1]
                                   ELSE hashPath(Last.projectRoot)

\* a call found a cache that holds no identity, gave the root commit and left
\* it in the cache
C14_Witness ==
    /\ project.last # <<>>
    /\ Last.cached = <<"not an identity\n">>
    /\ Last.output = CommitA
    /\ project.fs["/repo/.git/opencode"] = File(CommitA)

\* C15: on a non-empty project root getProjectId throws only for a malformed
\* worktree indirection file (no gitdir line, or a metadata path that is not a
\* directory); without a .git entry, and when the query exits non-zero, times
\* out or prints no commit hash, it returns the 16 hexadecimal characters of
\* the hash of the path; a failed write of the cache does not keep it from
\* returning the root commit.
C15_FallbackInsteadOfRaising ==
    (project.last # <<>> /\ Last.projectRoot # "")
       => /\ Last.threw
                <=> /\ isFile(Last.fs, Last.projectRoot \o "/.git")
                    /\ \/ ~Contains(Last.fs[Last.projectRoot \o "/.git"].text, "gitdir:")
                       \/ ~isDirectory(Last.fs,
                              SharedDirNamed(Last.fs[Last.projectRoot \o "/.git"].text))
          /\ (Last.projectRoot \o "/.git") \notin DOMAIN Last.fs
                => Last.output = hashPath(Last.projectRoot)
          /\ (Queried /\ ~QueryGaveRoot)
                => (Last.output = hashPath(Last.projectRoot) /\ IsHex(Last.output, 16))
          /\ Last.writes = <<FALSE>>
                => (~Last.threw /\ Last.output = RootCommitOf(project.revList)[1])

\* the query of a worktree's root commits timed out and the call gave the hash
\* of the worktree's path
C15_Witness ==
    /\ project.last # <<>>
    /\ Last.projectRoot = "/wt"
    /\ Last.exited = <<<<>>>>
    /\ ~Last.threw
    /\ Last.output = hashPath("/wt")


-----------------------------------------------------------------------------
(* The plan store on a system that may reject the read of a plan file.      *)

InitRead ==
    /\ parentID = Forest
    /\ dirs = {}
    /\ files = [r \in Sessions |-> <<>>]
    /\ call = NoCall
    /\ lastSaved = [r \in Sessions |-> <<>>]
    /\ activeCoderCalls = [c \in CallIDs |-> <<>>]
    /\ running = {}
    /\ now = 0
    /\ nextSweep = SweepIntervalMs
    /\ input = ""
    /\ project = NoProject

NextRead ==
    \/ \E s \in Callers, content \in StoreTexts : plan_save(<<s>>, content)
    \/ \E s \in Callers, e \in ReadErrors : plan_read_io(<<s>>, <<e>>)
    \/ \E s \in Callers : plan_read_io(<<s>>, <<>>)
    \/ plan_read_io(<<>>, <<>>)

SpecRead == InitRead /\ [][NextRead]_vars

\* C16: a plan_read for a root that has no plan file returns "No plan found."
\* without throwing, and creates no file and no directory; an error of the
\* read other than the file being missing is thrown on as it is.
C16_MissingPlanIsNoError ==
    [][(Returned(call', "plan_read") /\ Resolved(call'))
          => /\ dirs' = dirs
             /\ files' = files
             /\ (call'.fault = <<>> /\ files[RootOf(call').id] = <<>>)
                   => (~call'.threw /\ call'.output = "No plan found.")
             /\ call'.fault # <<>>
                   => (call'.threw /\ call'.output = call'.fault[1].message)]_vars

\* a plan_read found neither the plan file nor its directory, and left it so
C16_Witness ==
    /\ Returned(call, "plan_read")
    /\ Resolved(call)
    /\ call.fault = <<>>
    /\ call.output = "No plan found."
    /\ RootOf(call).id \notin dirs
    /\ files[RootOf(call).id] = <<>>


-----------------------------------------------------------------------------
(* Properties of the parser's reports, on the texts of ParserTexts *)

\* the defects of a text of DefectTexts
DefectsOf(text) == CHOOSE D \in SUBSET Defects : defectText(D) = text

\* the field that a defect breaks the constraint of
DefectPath ==
    [d \in Defects |->
        CASE d = "status" -> "frontmatter.status"
          [] d = "phase" -> "frontmatter.phase"
          [] d = "updated" -> "frontmatter.updated"
          [] d = "goal" -> "goal"
          [] d = "phaseStatus" -> "phases.0.status"
          [] d = "tasks" -> "phases.0.tasks"]

\* the line has the form "[<dotted field path>]: <message>", for one path of paths
ReportLine(line, paths) ==
    \E path \in paths :
        /\ StartsWith(line, "[" \o path \o "]: ")
        /\ Len(line) > Len(path) + 4

\* the report has one line for each defect of D, and no other line
ReportOf(lines, D) ==
    /\ Len(lines) = Cardinality(D)
    /\ \A d \in D : \E i \in DOMAIN lines : ReportLine(lines[i], {DefectPath[d]})
    /\ \A i \in DOMAIN lines : ReportLine(lines[i], {DefectPath[d] : d \in D})

\* C17: a text that breaks k >= 1 constraints of the schema fails validation
\* with a report of exactly k lines, one "[<dotted field path>]: <message>" for
\* each broken constraint, and the fixed hint; plan_save returns the two.
C17_OneLinePerViolation ==
    (Returned(call, "plan_save") /\ Resolved(call) /\ call.content \in DefectTexts
        /\ DefectsOf(call.content) # {})
       => /\ ~Parsed[call.content].ok
          /\ ReportOf(split(Parsed[call.content].error, "\n"), DefectsOf(call.content))
          /\ Parsed[call.content].hint = skillHint
          /\ call.output = "Plan validation failed:\n\n" \o Parsed[call.content].error
                               \o "\n\n" \o skillHint

\* a text with all the defects has been reported, in six lines
C17_Witness ==
    /\ Returned(call, "plan_save")
    /\ Resolved(call)
    /\ call.content = defectText(Defects)
    /\ Len(split(Parsed[call.content].error, "\n")) = 6
    /\ EndsWith(call.output, skillHint)


\* the lines of a text that are phase headings, and those that are task lines
IsPhaseHeading(line) == StartsWith(line, "## Phase ")
IsTaskLine(line) == StartsWith(line, "- [ ] ") \/ StartsWith(line, "- [x] ")

\* the indexes, from 0, of the phases whose heading no task line follows
\* before the next heading: lines are the text's lines, i the line looked at,
\* index the index of the phase it is in (-1 before the first heading) and
\* tasks the number of its task lines so far
RECURSIVE EmptyPhasesFrom(_, _, _, _)
EmptyPhasesFrom(lines, i, index, tasks) ==
    IF i > Len(lines) THEN (IF index >= 0 /\ tasks = 0 THEN {index} ELSE {})
    ELSE IF IsPhaseHeading(lines[i])
    THEN (IF index >= 0 /\ tasks = 0 THEN {index} ELSE {})
             \cup EmptyPhasesFrom(lines, i + 1, index + 1, 0)
    ELSE EmptyPhasesFrom(lines, i + 1, index,
                         IF IsTaskLine(lines[i]) THEN tasks + 1 ELSE tasks)

EmptyPhases(text) == EmptyPhasesFrom(split(text, "\n"), 1, -1, 0)
HasPhase(text) == \E i \in DOMAIN split(text, "\n") : IsPhaseHeading(split(text, "\n")[i])

\* C18: a text in which the heading of some phase is followed by no task line
\* fails validation, and the report cites the phase with
\* "[phases.<index>.tasks]: Phase must have at least one task"; a text without
\* any phase fails with a report at the path [phases].
C18_EmptyPhaseRejected ==
    (Returned(call, "plan_save") /\ Resolved(call) /\ call.content \in EmptyPhaseTexts)
       => /\ ~Parsed[call.content].ok
          /\ \A index \in EmptyPhases(call.content) :
                Contains(Parsed[call.content].error,
                         "[phases." \o ToString(index)
                             \o ".tasks]: Phase must have at least one task")
          /\ ~HasPhase(call.content)
                => Contains(Parsed[call.content].error, "[phases]: ")


\* texts in the canonical format: the frontmatter first, a goal of at least 10
\* characters, phases of one or more task lines, at most one task marked
CanonicalTexts ==
    {text \in PlanTexts : MarkedIn(text) <= 1} \cup {ReadmeStyle, NumberSignGoal}

\* the number in a phase heading, and the id in a task line
HeadingNumber(line) == SubSeq(line, 10, Min(Occurrences(line, ":")) - 1)
IdIn(rest) == SubSeq(rest, 1, Min(Occurrences(rest, " ")) - 1)
TaskIdOf(line) == IdIn(removeAll(SubSeq(line, 7, Len(line)), "**"))

\* the phases of a document, each with the ids of its task lines, in the
\* order of the document's lines
RECURSIVE OutlineFrom(_, _, _)
OutlineFrom(lines, i, done) ==
    IF i > Len(lines) THEN done
    ELSE IF IsPhaseHeading(lines[i])
    THEN OutlineFrom(lines, i + 1,
                     Append(done, [number |-> HeadingNumber(lines[i]), ids |-> <<>>]))
    ELSE IF IsTaskLine(lines[i]) /\ done # <<>>
    THEN OutlineFrom(lines, i + 1,
                     [done EXCEPT ![Len(done)].ids = Append(@, TaskIdOf(lines[i]))])
    ELSE OutlineFrom(lines, i + 1, done)

\* the same of a validated plan
outlineOf(phases) ==
    [p \in DOMAIN phases |->
        [number |-> ToString(phases[p].number.n),
         ids |-> [t \in DOMAIN phases[p].tasks |-> phases[p].tasks[t].id]]]

\* C19: a text in the canonical format validates, and the validated plan
\* lists exactly the phases of the document and in each phase exactly its task
\* lines, in the order of the document.
C19_CanonicalTextValidates ==
    (Returned(call, "plan_save") /\ Resolved(call) /\ call.content \in CanonicalTexts)
       => /\ Parsed[call.content].ok
          /\ outlineOf(Parsed[call.content].data.phases)
                = OutlineFrom(split(call.content, "\n"), 1, <<>>)


\* the number of phase headings marked IN PROGRESS
InProgressIn(text) == Cardinality(Occurrences(text, " [IN PROGRESS]\n"))

\* C20: a plan that is valid but for two or more phases marked IN PROGRESS is
\* accepted with exactly one warning: plan_save stores it and returns
\* "Plan saved." with the number of warnings and the warning.
C20_InProgressIsAWarning ==
    (Returned(call, "plan_save") /\ Resolved(call) /\ call.content \in BusyTexts)
       => /\ InProgressIn(call.content) >= 2
          /\ Parsed[call.content].ok
          /\ Len(Parsed[call.content].warnings) = 1
          /\ files[RootOf(call).id] = <<call.content>>
          /\ call.output = "Plan saved. (1 warnings: " \o Parsed[call.content].warnings[1] \o ")"
          /\ Contains(call.output, "Multiple phases marked IN PROGRESS")

\* the plan with two phases in progress has been saved from a sub-agent's session
C20_Witness ==
    /\ Returned(call, "plan_save")
    /\ call.sessionID = <<3>>
    /\ call.content = TwoInProgress
    /\ StartsWith(call.output, "Plan saved. (1 warnings: ")
    /\ files[1] = <<TwoInProgress>>


\* C21: a plan with a task line whose citation token does not match
\* ref:<word>-<word>-<word> fails validation with "Citation must be
\* ref:word-word-word format", and is not saved.
C21_BadCitationRejected ==
    (Returned(call, "plan_save") /\ Resolved(call) /\ call.content \in BadCitationTexts)
       => /\ ~Parsed[call.content].ok
          /\ Contains(call.output, "Citation must be ref:word-word-word format")
          /\ files[RootOf(call).id] = <<>>

\* C22: a plan with a task line whose id is not <int>.<int>, next to well-formed
\* task lines, fails validation with an error at the path of that task, and is
\* not saved without the task.
C22_BadTaskIdRejected ==
    (Returned(call, "plan_save") /\ Resolved(call) /\ call.content \in BadIdTexts)
       => /\ ~Parsed[call.content].ok
          /\ Contains(call.output, "[phases.0.tasks.1")
          /\ files[RootOf(call).id] = <<>>


\* C28: the citation token that ends a task line of the documented form is
\* returned as the task's citation, with or without the CURRENT marker before it
\* and whatever white space separates them, and is not left in the task's
\* content.
C28_CitationCaptured ==
    (Returned(call, "plan_save") /\ call.content \in CitedTexts /\ Parsed[call.content].ok)
       => \A i \in DOMAIN Parsed[call.content].data.phases[1].tasks :
             /\ Parsed[call.content].data.phases[1].tasks[i].citation = Str(Citation)
             /\ ~Contains(Parsed[call.content].data.phases[1].tasks[i].content, "ref:")


\* C29: a text that breaks a constraint of the schema and has two tasks marked
\* as current (and two phases in progress) fails validation with the lines of
\* the schema's violations alone: the error does not give the number of current
\* tasks, and no warning about the phases is returned.
C29_SchemaErrorsOnly ==
    (Returned(call, "plan_save") /\ Resolved(call) /\ call.content \in TwiceWrongTexts)
       => /\ ~Parsed[call.content].ok
          /\ \A i \in DOMAIN split(Parsed[call.content].error, "\n") :
                ReportLine(split(Parsed[call.content].error, "\n")[i],
                           {"frontmatter.status", "frontmatter.updated"})
          /\ ~Contains(call.output, "(found ")
          /\ ~Contains(call.output, "CURRENT")
          /\ ~Contains(call.output, inProgressWarning)
          /\ files[RootOf(call).id] = <<>>

\* the text with the two schema violations and the two current tasks was rejected
\* with a report of two lines
C29_Witness ==
    /\ Returned(call, "plan_save")
    /\ Resolved(call)
    /\ call.content = brokenAndMarkedTwice({"status", "updated"})
    /\ MarkedIn(call.content) = 2
    /\ Len(split(Parsed[call.content].error, "\n")) = 2
    /\ StartsWith(call.output, "Plan validation failed:")


-----------------------------------------------------------------------------
(* The plan store of a host whose sessions' parent links run in circles *)

InitRings ==
    /\ parentID = Rings
    /\ dirs = {}
    /\ files = [r \in Sessions |-> <<>>]
    /\ call = NoCall
    /\ lastSaved = [r \in Sessions |-> <<>>]
    /\ activeCoderCalls = [c \in CallIDs |-> <<>>]
    /\ running = {}
    /\ now = 0
    /\ nextSweep = SweepIntervalMs
    /\ input = ""
    /\ project = NoProject

NextRings ==
    \/ \E s \in Callers, content \in StoreTexts : plan_save(<<s>>, content)
    \/ \E s \in Callers : plan_read(<<s>>)

SpecRings == InitRings /\ [][NextRings]_vars

\* no session without a parent is found within n links above the session
RECURSIVE Rootless(_, _)
Rootless(s, n) ==
    /\ parentID[s] # <<>>
    /\ n = 0 \/ Rootless(parentID[s][1], n - 1)

\* the parent links above the session run into a cycle
RunsInCircles(s) == Rootless(s, Cardinality(DOMAIN parentID))

\* C23: the resolution of the root makes at most 10 session lookups whatever
\* the parent links are; from a session whose parent links run into a cycle it
\* throws the depth-exceeded error and gives no id, and the plan_save that
\* called it creates no directory and writes no file.
C23_CycleThrowsWithoutEffect ==
    [][(call'.tool \in {"plan_save", "plan_read"} /\ call'.sessionID # <<>>)
          => /\ sessionGets(call'.sessionID[1], 0) <= MaxTraversalDepth
             /\ RunsInCircles(call'.sessionID[1])
                   => /\ ~RootOf(call').ok
                      /\ call'.threw
                      /\ call'.output = traversalError
                      /\ dirs' = dirs
                      /\ files' = files]_vars

\* after a plan was saved under a sound tree, a plan_save from the child of a
\* session on a cycle threw, and no directory was made for any of them
C23_Witness ==
    /\ call.tool = "plan_save"
    /\ call.sessionID = <<4>>
    /\ call.threw
    /\ call.output = traversalError
    /\ dirs = {5}
    /\ files[5] # <<>>

-----------------------------------------------------------------------------
(* The plan store when the user edits plan files with a text editor *)

\* what the user's editor leaves in a plan file: a valid plan, a second task
\* marked as current, a date of the wrong shape
EditedTexts == {ScenarioA, ScenarioB, ScenarioC}

\* the user overwrites the plan file of a root with a text of their own
ManualEdit(root, text) ==
    /\ files[root] # <<>>
    /\ files[root] # <<text>>
    /\ files' = [files EXCEPT ![root] = <<text>>]
    /\ UNCHANGED <<project, parentID, dirs, call, lastSaved, activeCoderCalls, running, now,
                   nextSweep, input>>

InitEdit ==
    /\ parentID = Forest
    /\ dirs = {}
    /\ files = [r \in Sessions |-> <<>>]
    /\ call = NoCall
    /\ lastSaved = [r \in Sessions |-> <<>>]
    /\ activeCoderCalls = [c \in CallIDs |-> <<>>]
    /\ running = {}
    /\ now = 0
    /\ nextSweep = SweepIntervalMs
    /\ input = ""
    /\ project = NoProject

NextEdit ==
    \/ \E s \in Callers, content \in EditedTexts \cup {Unmarked} : plan_save(<<s>>, content)
    \/ \E root \in Sessions, text \in EditedTexts : ManualEdit(root, text)
    \/ \E s \in Callers : session_compacting(s)

SpecEdit == InitEdit /\ [][NextEdit]_vars

\* C26: a compaction appends a context block only for a stored plan text that
\* passes validation: a plan file edited by hand into an invalid form is not
\* injected.
C26_OnlyValidPlanInjected ==
    [][(call' # call /\ Returned(call', "compacting") /\ call'.context # <<>>)
          => Parsed[files[RootOf(call').id][1]].ok]_vars

\* C27: a plan_save whose content fails validation creates no directory and no
\* file under the workspace store.
C27_RejectedSaveTouchesNothing ==
    [][(call' # call /\ Returned(call', "plan_save") /\ ~Parsed[call'.content].ok)
          => dirs' = dirs /\ files' = files]_vars

-----------------------------------------------------------------------------
(* The tracking of coder calls when several sessions of the host run task  *)
(* calls at once: the one map of the plugin instance serves them all.      *)

\* the sessions that start task calls, one of each tree, and their call identifiers
TaskSessions == {1, 4}
SharedCallIDs == {"call_1", "call_2"}

InitShared ==
    /\ parentID = Forest
    /\ dirs = {}
    /\ files = [r \in Sessions |-> <<>>]
    /\ call = NoCall
    /\ lastSaved = [r \in Sessions |-> <<>>]
    /\ activeCoderCalls = [c \in CallIDs |-> <<>>]
    /\ running = {}
    /\ now = 0
    /\ nextSweep = SweepIntervalMs
    /\ input = ""
    /\ project = NoProject

\* a session starts a task call: tool.execute.before runs, and is not given the session
TaskStartIn(sessionID, callID, subagent_type) ==
    /\ \A c \in running : c.callID # callID
    /\ running' = running \cup {[callID |-> callID, subagent_type |-> subagent_type,
                                 sessionID |-> sessionID]}
    /\ activeCoderCalls' =
           tool_execute_before("task", <<callID>>, subagent_type, activeCoderCalls, now)
    /\ UNCHANGED <<project, parentID, dirs, files, call, lastSaved, now, nextSweep, input>>

\* a completion that looks at the calls of its own session only
TaskCompleteIn_per_session(c) ==
    LET left == [activeCoderCalls EXCEPT ![c.callID] = <<>>]
        mine == {d \in running \ {c} : d.sessionID = c.sessionID /\ left[d.callID] # <<>>}
    IN /\ c \in running
       /\ running' = running \ {c}
       /\ activeCoderCalls' = left
       /\ call' = [tool |-> "task", sessionID |-> <<c.sessionID>>, callID |-> <<c.callID>>,
                   content |-> "", subagent_type |-> c.subagent_type, threw |-> FALSE,
                   output |-> IF activeCoderCalls[c.callID] # <<>> /\ mine = {}
                              THEN TaskOutput \o coderCompleteReminder ELSE TaskOutput,
                   hooked |-> TRUE, context |-> <<>>, fault |-> <<>>]
       /\ UNCHANGED <<project, parentID, dirs, files, lastSaved, now, nextSweep, input>>

\* a running task call completes: tool.execute.after runs on its output, and
\* does not read the session it is given
TaskCompleteIn(c) ==
    LET after == tool_execute_after("task", <<c.callID>>, TaskOutput, activeCoderCalls)
    IN /\ c \in running
       /\ running' = running \ {c}
       /\ activeCoderCalls' = after.tracked
       /\ call' = [tool |-> "task", sessionID |-> <<c.sessionID>>, callID |-> <<c.callID>>,
                   content |-> "", subagent_type |-> c.subagent_type, threw |-> FALSE,
                   output |-> after.output, hooked |-> TRUE, context |-> <<>>,
                   fault |-> <<>>]
       /\ UNCHANGED <<project, parentID, dirs, files, lastSaved, now, nextSweep, input>>

NextShared ==
    \/ \E sessionID \in TaskSessions, callID \in SharedCallIDs, subagent_type \in SubagentTypes :
           TaskStartIn(sessionID, callID, subagent_type)
    \/ \E c \in running : TaskCompleteIn(c)
    \/ cleanupInterval
    \/ Tick

SpecShared == InitShared /\ [][NextShared]_vars

\* the entries of the map
Tracked(tracked) == {c \in DOMAIN tracked : tracked[c] # <<>>}

\* C30: the map of in-flight coder calls is keyed by call id alone and serves
\* every session: a step changes it only by the insertion of the call that
\* starts, the deletion of the call that completes, or deletions by the sweep;
\* the completion of a coder call gets the review reminder only if no entry is
\* left in the map, whatever session registered it.
C30_OneMapForAllSessions ==
    [][/\ DOMAIN activeCoderCalls' = CallIDs
       /\ activeCoderCalls' # activeCoderCalls
             => \/ \E c \in running' \ running :
                      /\ c.subagent_type = "coder"
                      /\ activeCoderCalls' = [activeCoderCalls EXCEPT ![c.callID] = <<now>>]
                \/ \E c \in running \ running' :
                      /\ activeCoderCalls[c.callID] # <<>>
                      /\ activeCoderCalls' = [activeCoderCalls EXCEPT ![c.callID] = <<>>]
                \/ /\ nextSweep' # nextSweep
                   /\ running' = running
                   /\ Tracked(activeCoderCalls') \subseteq Tracked(activeCoderCalls)
                   /\ \A c \in Tracked(activeCoderCalls') :
                         activeCoderCalls'[c] = activeCoderCalls[c]
       /\ \A c \in running :
             running' = running \ {c}
                => /\ call'.sessionID = <<c.sessionID>>
                   /\ Reminded(call')
                         <=> /\ activeCoderCalls[c.callID] # <<>>
                             /\ Tracked(activeCoderCalls) = {c.callID}
                   /\ (\E d \in running' : /\ d.sessionID # c.sessionID
                                           /\ activeCoderCalls[d.callID] # <<>>)
                         => ~Reminded(call')]_vars

\* the only coder call of session 1 has completed without the reminder: a coder
\* call of session 4 is in the map
C30_Witness ==
    /\ call.tool = "task"
    /\ call.sessionID = <<1>>
    /\ call.subagent_type = "coder"
    /\ ~Reminded(call)
    /\ \A d \in running : d.sessionID = 4
    /\ \E d \in running : d.subagent_type = "coder" /\ activeCoderCalls[d.callID] # <<>>

====
